---- MODULE Spec2Model ----
(***************************************************************************)
(* 3D Cube Chess (src/cubechess.js).  The file holds three successive      *)
(* versions of the game, each an IIFE of its own:                          *)
(*   - the AI version            (lines 1-814):     names ending in AI     *)
(*   - the rook/pawn version     (lines 1275-2007): names ending in RP     *)
(*   - the collision-aware one   (lines 2008-2942): the source's own names *)
(* The gameState fields are the same in all three and are modelled by the  *)
(* same variables; each version has its own specification.                 *)
(***************************************************************************)
EXTENDS Integers, Sequences, FiniteSets, TLC

VARIABLES
  faces,            \* gameState.faces: face name -> row -> col -> piece or null
  currentTurn,      \* gameState.currentTurn
  selectedSquare,   \* gameState.selectedSquare (nullPos when null)
  possibleMoves,    \* gameState.possibleMoves (array of positions)
  inCheck,          \* gameState.inCheck
  gameOver,         \* gameState.gameOver
  aiThinking,       \* gameState.aiThinking
  animationActive,  \* animationState.active: a requestAnimationFrame callback of animateRotation is pending
  timers,           \* AI version: number of opponent setTimeout callbacks not fired yet
  twists,           \* AI version: number of twist animations whose last frame has not run yet
  ev,               \* the last event handled (which handler, its arguments, the branch it took)
  steps,            \* number of events handled so far
  call,             \* pure-function specifications: the arguments drawn by Init; SpecIdx: the callback requested from requestAnimationFrame
  ret,              \* pure-function specifications: the value returned
  state             \* Tetris (src/script.js): the object `state`

vars == <<faces, currentTurn, selectedSquare, possibleMoves, inCheck, gameOver,
          aiThinking, animationActive, timers, twists, ev, steps, call, ret, state>>

gameVars == <<faces, currentTurn, selectedSquare, possibleMoves, inCheck, gameOver, aiThinking>>

(***************************************************************************)
(* Constants and piece definitions                                         *)
(***************************************************************************)
WHITE == "white"
BLACK == "black"
COLORS == {WHITE, BLACK}

PAWN == "P"
ROOK == "R"
KNIGHT == "N"
BISHOP == "B"
QUEEN == "Q"
KING == "K"
PIECES == {PAWN, ROOK, KNIGHT, BISHOP, QUEEN, KING}

FACE_NAMES == <<"front", "back", "left", "right", "top", "bottom">>
FaceSet == {FACE_NAMES[i] : i \in 1..Len(FACE_NAMES)}

\* every face is an 8x8 array
BoardSize == 8
Idx == 0..(BoardSize - 1)

Piece(t, c) == [type |-> t, color |-> c]
null == [type |-> "null", color |-> "null"]

Pos(f, r, c) == [face |-> f, row |-> r, col |-> c]
nullPos == [face |-> "null", row |-> -1, col |-> -1]

Squares == {Pos(f, r, c) : f \in FaceSet, r \in Idx, c \in Idx}

At(fs, p) == fs[p.face][p.row][p.col]

otherColor(c) == IF c = WHITE THEN BLACK ELSE WHITE

\* a JS array as a set
Range(s) == {s[i] : i \in 1..Len(s)}

RECURSIVE Flatten(_)
Flatten(ss) == IF ss = <<>> THEN <<>> ELSE Head(ss) \o Flatten(Tail(ss))

(***************************************************************************)
(* Cube model: createCubeFaces                                             *)
(***************************************************************************)
pieceOrder == <<ROOK, KNIGHT, BISHOP, QUEEN, KING, BISHOP, KNIGHT, ROOK>>

emptyFace == [r \in Idx |-> [c \in Idx |-> null]]

createCubeFaces ==
  LET e == [f \in FaceSet |-> emptyFace]
      f1 == [e  EXCEPT !["front"][7] = [c \in Idx |-> Piece(pieceOrder[c + 1], WHITE)]]
      f2 == [f1 EXCEPT !["front"][6] = [c \in Idx |-> Piece(PAWN, WHITE)]]
      f3 == [f2 EXCEPT !["back"][0] = [c \in Idx |-> Piece(pieceOrder[c + 1], BLACK)]]
      f4 == [f3 EXCEPT !["back"][1] = [c \in Idx |-> Piece(PAWN, BLACK)]]
  IN f4

(***************************************************************************)
(* Chess rules and move generation (collision-aware version)               *)
(***************************************************************************)
getAdjacentFacePosition(face, row, col, direction) ==
  LET adjacency ==
        [front  |-> [up |-> Pos("top", 7, col),      down |-> Pos("bottom", 0, col),
                     left |-> Pos("left", row, 7),   right |-> Pos("right", row, 0)],
         back   |-> [up |-> Pos("top", 0, 7 - col),  down |-> Pos("bottom", 7, 7 - col),
                     left |-> Pos("right", row, 7),  right |-> Pos("left", row, 0)],
         right  |-> [up |-> Pos("top", row, 7),      down |-> Pos("bottom", row, 7),
                     left |-> Pos("front", row, 7),  right |-> Pos("back", row, 7)],
         left   |-> [up |-> Pos("top", row, 0),      down |-> Pos("bottom", row, 0),
                     left |-> Pos("back", row, 0),   right |-> Pos("front", row, 0)],
         top    |-> [up |-> Pos("back", 0, 7 - col), down |-> Pos("front", 0, col),
                     left |-> Pos("left", 0, col),   right |-> Pos("right", 0, col)],
         bottom |-> [up |-> Pos("front", 7, col),    down |-> Pos("back", 7, 7 - col),
                     left |-> Pos("left", 7, col),   right |-> Pos("right", 7, col)]]
  IN IF face \in DOMAIN adjacency /\ direction \in DOMAIN adjacency[face]
       THEN adjacency[face][direction]
       ELSE nullPos

getNextPosition(face, row, col, dRow, dCol) ==
  LET newRow == row + dRow
      newCol == col + dCol
      direction == IF newRow < 0 THEN "up"
                   ELSE IF newRow >= 8 THEN "down"
                   ELSE IF newCol < 0 THEN "left"
                   ELSE IF newCol >= 8 THEN "right"
                   ELSE "none"
  IN IF newRow >= 0 /\ newRow < 8 /\ newCol >= 0 /\ newCol < 8
       THEN Pos(face, newRow, newCol)
       ELSE IF direction # "none"
              THEN getAdjacentFacePosition(face, row, col, direction)
              ELSE nullPos

\* default value of getPathPositions' maxSteps parameter
maxSteps == 8

\* the loop of getPathPositions from step `step` on, standing on currentPos
RECURSIVE pathLoop(_, _, _, _, _, _)
pathLoop(fs, start, currentPos, dRow, dCol, step) ==
  IF step >= maxSteps THEN <<>>
  ELSE LET nextPos == getNextPosition(currentPos.face, currentPos.row, currentPos.col, dRow, dCol)
       IN IF nextPos = nullPos THEN <<>>
          ELSE LET piece == At(fs, nextPos)
               IN IF piece # null
                    THEN IF piece.color # At(fs, start).color THEN <<nextPos>> ELSE <<>>
                    ELSE <<nextPos>> \o pathLoop(fs, start, nextPos, dRow, dCol, step + 1)

\* mutant of getPathPositions: the walk does not stop at a piece of the other
\* color, it captures and goes on
RECURSIVE pathLoop_passesThrough(_, _, _, _, _, _)
pathLoop_passesThrough(fs, start, currentPos, dRow, dCol, step) ==
  IF step >= maxSteps THEN <<>>
  ELSE LET nextPos == getNextPosition(currentPos.face, currentPos.row, currentPos.col, dRow, dCol)
       IN IF nextPos = nullPos THEN <<>>
          ELSE LET piece == At(fs, nextPos)
               IN IF piece # null /\ piece.color = At(fs, start).color
                    THEN <<>>
                    ELSE <<nextPos>> \o pathLoop_passesThrough(fs, start, nextPos, dRow, dCol, step + 1)

getPathPositions_passesThrough(fs, startFace, startRow, startCol, dRow, dCol) ==
  pathLoop_passesThrough(fs, Pos(startFace, startRow, startCol),
                         Pos(startFace, startRow, startCol), dRow, dCol, 0)

\* mutant of getPathPositions: the first occupied square is a destination
\* whatever the color of the piece on it
RECURSIVE pathLoop_capturesOwn(_, _, _, _, _, _)
pathLoop_capturesOwn(fs, start, currentPos, dRow, dCol, step) ==
  IF step >= maxSteps THEN <<>>
  ELSE LET nextPos == getNextPosition(currentPos.face, currentPos.row, currentPos.col, dRow, dCol)
       IN IF nextPos = nullPos THEN <<>>
          ELSE IF At(fs, nextPos) # null
                 THEN <<nextPos>>
                 ELSE <<nextPos>> \o pathLoop_capturesOwn(fs, start, nextPos, dRow, dCol, step + 1)

getPathPositions_capturesOwn(fs, startFace, startRow, startCol, dRow, dCol) ==
  pathLoop_capturesOwn(fs, Pos(startFace, startRow, startCol),
                       Pos(startFace, startRow, startCol), dRow, dCol, 0)

getPathPositions(fs, startFace, startRow, startCol, dRow, dCol) ==
  pathLoop(fs, Pos(startFace, startRow, startCol), Pos(startFace, startRow, startCol), dRow, dCol, 0)

rookDirections == << <<-1, 0>>, <<1, 0>>, <<0, -1>>, <<0, 1>> >>
bishopDirections == << <<-1, -1>>, <<-1, 1>>, <<1, -1>>, <<1, 1>> >>
queenDirections == rookDirections \o bishopDirections
knightMoves == << <<-2, -1>>, <<-2, 1>>, <<-1, -2>>, <<-1, 2>>,
                  <<1, -2>>, <<1, 2>>, <<2, -1>>, <<2, 1>> >>
kingDirections == << <<-1, -1>>, <<-1, 0>>, <<-1, 1>>,
                     <<0, -1>>,             <<0, 1>>,
                     <<1, -1>>,  <<1, 0>>,  <<1, 1>> >>

\* mutant of pawnMoves: the forward step is also taken onto a piece of the other color
pawnMoves_capturesAhead(fs, face, row, col) ==
  LET piece == fs[face][row][col]
      direction == IF piece.color = WHITE THEN -1 ELSE 1
      newRow == row + direction
      onFace == newRow >= 0 /\ newRow < 8
      dir == IF newRow < 0 THEN "up" ELSE "down"
      adjPos == getAdjacentFacePosition(face, row, col, dir)
      free(p) == At(fs, p) = null \/ At(fs, p).color # piece.color
      forward == IF onFace
                   THEN IF free(Pos(face, newRow, col)) THEN << Pos(face, newRow, col) >> ELSE <<>>
                   ELSE IF adjPos # nullPos /\ free(adjPos) THEN << adjPos >> ELSE <<>>
      captureLeft == IF onFace /\ col > 0 /\ fs[face][newRow][col - 1] # null
                        /\ fs[face][newRow][col - 1].color # piece.color
                       THEN << Pos(face, newRow, col - 1) >> ELSE <<>>
      captureRight == IF onFace /\ col < 7 /\ fs[face][newRow][col + 1] # null
                         /\ fs[face][newRow][col + 1].color # piece.color
                        THEN << Pos(face, newRow, col + 1) >> ELSE <<>>
  IN forward \o captureLeft \o captureRight

\* case PAWN of getValidMoves
pawnMoves(fs, face, row, col) ==
  LET piece == fs[face][row][col]
      direction == IF piece.color = WHITE THEN -1 ELSE 1
      newRow == row + direction
      onFace == newRow >= 0 /\ newRow < 8
      dir == IF newRow < 0 THEN "up" ELSE "down"
      adjPos == getAdjacentFacePosition(face, row, col, dir)
      forward == IF onFace /\ fs[face][newRow][col] = null
                   THEN << Pos(face, newRow, col) >>
                   ELSE IF ~onFace
                          THEN IF adjPos # nullPos /\ At(fs, adjPos) = null
                                 THEN << adjPos >> ELSE <<>>
                          ELSE <<>>
      captureLeft == IF onFace /\ col > 0 /\ fs[face][newRow][col - 1] # null
                        /\ fs[face][newRow][col - 1].color # piece.color
                       THEN << Pos(face, newRow, col - 1) >> ELSE <<>>
      captureRight == IF onFace /\ col < 7 /\ fs[face][newRow][col + 1] # null
                         /\ fs[face][newRow][col + 1].color # piece.color
                        THEN << Pos(face, newRow, col + 1) >> ELSE <<>>
  IN forward \o captureLeft \o captureRight

\* cases ROOK, BISHOP, QUEEN of getValidMoves: one getPathPositions per direction
slidingMoves(fs, face, row, col, directions) ==
  Flatten([i \in 1..Len(directions) |->
             getPathPositions(fs, face, row, col, directions[i][1], directions[i][2])])

\* mutant of jumpMoves: the jump is pushed whatever stands on its square
jumpMoves_landsOnOwn(fs, face, row, col, offsets) ==
  LET one(d) ==
        LET newRow == row + d[1]
            newCol == col + d[2]
            nextPos == getNextPosition(face, row, col, d[1], d[2])
        IN IF newRow >= 0 /\ newRow < 8 /\ newCol >= 0 /\ newCol < 8
             THEN << Pos(face, newRow, newCol) >>
             ELSE IF nextPos # nullPos THEN << nextPos >> ELSE <<>>
  IN Flatten([i \in 1..Len(offsets) |-> one(offsets[i])])

\* cases KNIGHT and KING of getValidMoves: one jump per offset
jumpMoves(fs, face, row, col, offsets) ==
  LET piece == fs[face][row][col]
      one(d) ==
        LET newRow == row + d[1]
            newCol == col + d[2]
            nextPos == getNextPosition(face, row, col, d[1], d[2])
        IN IF newRow >= 0 /\ newRow < 8 /\ newCol >= 0 /\ newCol < 8
             THEN IF fs[face][newRow][newCol] = null \/ fs[face][newRow][newCol].color # piece.color
                    THEN << Pos(face, newRow, newCol) >> ELSE <<>>
             ELSE IF nextPos # nullPos
                       /\ (At(fs, nextPos) = null \/ At(fs, nextPos).color # piece.color)
                    THEN << nextPos >> ELSE <<>>
  IN Flatten([i \in 1..Len(offsets) |-> one(offsets[i])])

getValidMoves(fs, face, row, col) ==
  LET piece == fs[face][row][col]
  IN IF piece = null THEN <<>>
     ELSE CASE piece.type = PAWN   -> pawnMoves(fs, face, row, col)
            [] piece.type = ROOK   -> slidingMoves(fs, face, row, col, rookDirections)
            [] piece.type = BISHOP -> slidingMoves(fs, face, row, col, bishopDirections)
            [] piece.type = QUEEN  -> slidingMoves(fs, face, row, col, queenDirections)
            [] piece.type = KNIGHT -> jumpMoves(fs, face, row, col, knightMoves)
            [] piece.type = KING   -> jumpMoves(fs, face, row, col, kingDirections)
            [] OTHER -> <<>>

(***************************************************************************)
(* Rotation system (collision-aware version)                               *)
(***************************************************************************)
\* mutant of rotateRowFaces: the saved row is not written back, so the row that
\* was copied first is written to the last face again
rotateRowFaces_dropsTemp(fs, rowIndex, clockwise) ==
  IF clockwise
    THEN LET f1 == [fs EXCEPT !["right"][rowIndex] = fs["front"][rowIndex]]
             f2 == [f1 EXCEPT !["front"][rowIndex] = f1["left"][rowIndex]]
             f3 == [f2 EXCEPT !["left"][rowIndex] = f2["back"][rowIndex]]
         IN [f3 EXCEPT !["back"][rowIndex] = f3["right"][rowIndex]]
    ELSE LET f1 == [fs EXCEPT !["left"][rowIndex] = fs["front"][rowIndex]]
             f2 == [f1 EXCEPT !["front"][rowIndex] = f1["right"][rowIndex]]
             f3 == [f2 EXCEPT !["right"][rowIndex] = f2["back"][rowIndex]]
         IN [f3 EXCEPT !["back"][rowIndex] = f3["left"][rowIndex]]

\* mutant of rotateRowFaces: the two directions are exchanged
rotateRowFaces_exchanged(fs, rowIndex, clockwise) ==
  IF ~clockwise
    THEN LET temp == fs["right"][rowIndex]
             f1 == [fs EXCEPT !["right"][rowIndex] = fs["front"][rowIndex]]
             f2 == [f1 EXCEPT !["front"][rowIndex] = f1["left"][rowIndex]]
             f3 == [f2 EXCEPT !["left"][rowIndex] = f2["back"][rowIndex]]
         IN [f3 EXCEPT !["back"][rowIndex] = temp]
    ELSE LET temp == fs["left"][rowIndex]
             f1 == [fs EXCEPT !["left"][rowIndex] = fs["front"][rowIndex]]
             f2 == [f1 EXCEPT !["front"][rowIndex] = f1["right"][rowIndex]]
             f3 == [f2 EXCEPT !["right"][rowIndex] = f2["back"][rowIndex]]
         IN [f3 EXCEPT !["back"][rowIndex] = temp]

\* the four row assignments of rotateRow, in the order the code makes them
rotateRowFaces(fs, rowIndex, clockwise) ==
  IF clockwise
    THEN LET temp == fs["right"][rowIndex]
             f1 == [fs EXCEPT !["right"][rowIndex] = fs["front"][rowIndex]]
             f2 == [f1 EXCEPT !["front"][rowIndex] = f1["left"][rowIndex]]
             f3 == [f2 EXCEPT !["left"][rowIndex] = f2["back"][rowIndex]]
         IN [f3 EXCEPT !["back"][rowIndex] = temp]
    ELSE LET temp == fs["left"][rowIndex]
             f1 == [fs EXCEPT !["left"][rowIndex] = fs["front"][rowIndex]]
             f2 == [f1 EXCEPT !["front"][rowIndex] = f1["right"][rowIndex]]
             f3 == [f2 EXCEPT !["right"][rowIndex] = f2["back"][rowIndex]]
         IN [f3 EXCEPT !["back"][rowIndex] = temp]

\* one `for (let i = 0; i < 8; i++) dst[i][dstCol] = value(i)` loop
setColumn(fs, face, colIndex, value) ==
  [fs EXCEPT ![face] = [i \in Idx |-> [fs[face][i] EXCEPT ![colIndex] = value[i]]]]

\* mutant of rotateColumnFaces: the back face is read and written in column
\* colIndex instead of the reflected column 7 - colIndex
rotateColumnFaces_sameColumn(fs, colIndex, clockwise) ==
  IF clockwise
    THEN LET temp == [i \in Idx |-> fs["bottom"][i][colIndex]]
             f1 == setColumn(fs, "bottom", colIndex, [i \in Idx |-> fs["front"][i][colIndex]])
             f2 == setColumn(f1, "front", colIndex, [i \in Idx |-> f1["top"][i][colIndex]])
             f3 == setColumn(f2, "top", colIndex, [i \in Idx |-> f2["back"][7 - i][colIndex]])
         IN setColumn(f3, "back", colIndex, [i \in Idx |-> temp[7 - i]])
    ELSE LET temp == [i \in Idx |-> fs["top"][i][colIndex]]
             f1 == setColumn(fs, "top", colIndex, [i \in Idx |-> fs["front"][i][colIndex]])
             f2 == setColumn(f1, "front", colIndex, [i \in Idx |-> f1["bottom"][i][colIndex]])
             f3 == setColumn(f2, "bottom", colIndex, [i \in Idx |-> f2["back"][7 - i][colIndex]])
         IN setColumn(f3, "back", colIndex, [i \in Idx |-> temp[7 - i]])

\* the five loops of rotateColumn, in the order the code runs them
rotateColumnFaces(fs, colIndex, clockwise) ==
  IF clockwise
    THEN LET temp == [i \in Idx |-> fs["bottom"][i][colIndex]]
             f1 == setColumn(fs, "bottom", colIndex, [i \in Idx |-> fs["front"][i][colIndex]])
             f2 == setColumn(f1, "front", colIndex, [i \in Idx |-> f1["top"][i][colIndex]])
             f3 == setColumn(f2, "top", colIndex, [i \in Idx |-> f2["back"][7 - i][7 - colIndex]])
         IN setColumn(f3, "back", 7 - colIndex, [i \in Idx |-> temp[7 - i]])
    ELSE LET temp == [i \in Idx |-> fs["top"][i][colIndex]]
             f1 == setColumn(fs, "top", colIndex, [i \in Idx |-> fs["front"][i][colIndex]])
             f2 == setColumn(f1, "front", colIndex, [i \in Idx |-> f1["bottom"][i][colIndex]])
             f3 == setColumn(f2, "bottom", colIndex, [i \in Idx |-> f2["back"][7 - i][7 - colIndex]])
         IN setColumn(f3, "back", 7 - colIndex, [i \in Idx |-> temp[7 - i]])

(***************************************************************************)
(* Events                                                                  *)
(***************************************************************************)
Event(op, sq, index, clockwise, path) ==
  [op |-> op, sq |-> sq, index |-> index, clockwise |-> clockwise, path |-> path]

\* number of events one run handles
MaxSteps == 6

\* the squares the player clicks and the slice indices the player picks
ClickSquares ==
  { Pos("front", 7, 4), Pos("front", 7, 3), Pos("front", 6, 4), Pos("front", 5, 4),
    Pos("front", 6, 3), Pos("back", 1, 4), Pos("back", 2, 4), Pos("top", 7, 3) }
RotIndices == {0, 3, 7}

(***************************************************************************)
(* Game logic (collision-aware version)                                    *)
(***************************************************************************)
\* mutant of makeMoveFaces: the origin square is not cleared
makeMoveFaces_keepsOrigin(fs, from, to) ==
  [fs EXCEPT ![to.face][to.row][to.col] = fs[from.face][from.row][from.col]]

makeMoveFaces(fs, from, to) ==
  LET f1 == [fs EXCEPT ![to.face][to.row][to.col] = fs[from.face][from.row][from.col]]
  IN [f1 EXCEPT ![from.face][from.row][from.col] = null]

\* mutant of handleSquareClick: a click on another piece of the mover's color,
\* made while a square is selected, selects that piece instead of clearing
handleSquareClick_reselects(face, row, col) ==
  LET piece == faces[face][row][col]
      sq == Pos(face, row, col)
  IN IF selectedSquare # nullPos /\ sq \in Range(possibleMoves)
       THEN /\ faces' = [faces EXCEPT ![sq.face][sq.row][sq.col] = At(faces, selectedSquare),
                                      ![selectedSquare.face][selectedSquare.row][selectedSquare.col] = null]
            /\ currentTurn' = otherColor(currentTurn)
            /\ selectedSquare' = nullPos
            /\ possibleMoves' = <<>>
            /\ UNCHANGED <<inCheck, gameOver, aiThinking>>
            /\ ev' = Event("handleSquareClick", sq, -1, FALSE, "move")
       ELSE IF piece # null /\ piece.color = currentTurn
              THEN /\ selectedSquare' = sq
                   /\ possibleMoves' = getValidMoves(faces, face, row, col)
                   /\ UNCHANGED <<faces, currentTurn, inCheck, gameOver, aiThinking>>
                   /\ ev' = Event("handleSquareClick", sq, -1, FALSE, "select")
              ELSE /\ selectedSquare' = nullPos
                   /\ possibleMoves' = <<>>
                   /\ UNCHANGED <<faces, currentTurn, inCheck, gameOver, aiThinking>>
                   /\ ev' = Event("handleSquareClick", sq, -1, FALSE, "deselect")

handleSquareClick(face, row, col) ==
  LET piece == faces[face][row][col]
      sq == Pos(face, row, col)
  IN IF gameOver \/ aiThinking
       THEN /\ UNCHANGED gameVars
            /\ ev' = Event("handleSquareClick", sq, -1, FALSE, "rejected")
       ELSE IF selectedSquare # nullPos
         THEN IF sq \in Range(possibleMoves)
                THEN \* makeMove(gameState.selectedSquare, move)
                     /\ faces' = makeMoveFaces(faces, selectedSquare, sq)
                     /\ currentTurn' = otherColor(currentTurn)
                     /\ selectedSquare' = nullPos
                     /\ possibleMoves' = <<>>
                     /\ UNCHANGED <<inCheck, gameOver, aiThinking>>
                     /\ ev' = Event("handleSquareClick", sq, -1, FALSE, "move")
                ELSE /\ selectedSquare' = nullPos
                     /\ possibleMoves' = <<>>
                     /\ UNCHANGED <<faces, currentTurn, inCheck, gameOver, aiThinking>>
                     /\ ev' = Event("handleSquareClick", sq, -1, FALSE, "deselect")
         ELSE IF piece # null /\ piece.color = currentTurn
                THEN /\ selectedSquare' = sq
                     /\ possibleMoves' = getValidMoves(faces, face, row, col)
                     /\ UNCHANGED <<faces, currentTurn, inCheck, gameOver, aiThinking>>
                     /\ ev' = Event("handleSquareClick", sq, -1, FALSE, "select")
                ELSE /\ UNCHANGED gameVars
                     /\ ev' = Event("handleSquareClick", sq, -1, FALSE, "none")

rotateRow(rowIndex, clockwise) ==
  /\ IF aiThinking \/ animationActive
       THEN /\ UNCHANGED <<faces, animationActive>>
            /\ ev' = Event("rotateRow", nullPos, rowIndex, clockwise, "rejected")
       ELSE /\ animationActive' = TRUE
            /\ faces' = rotateRowFaces(faces, rowIndex, clockwise)
            /\ ev' = Event("rotateRow", nullPos, rowIndex, clockwise, "rotated")
  /\ UNCHANGED <<currentTurn, selectedSquare, possibleMoves, inCheck, gameOver, aiThinking>>

rotateColumn(colIndex, clockwise) ==
  /\ IF aiThinking \/ animationActive
       THEN /\ UNCHANGED <<faces, animationActive>>
            /\ ev' = Event("rotateColumn", nullPos, colIndex, clockwise, "rejected")
       ELSE /\ animationActive' = TRUE
            /\ faces' = rotateColumnFaces(faces, colIndex, clockwise)
            /\ ev' = Event("rotateColumn", nullPos, colIndex, clockwise, "rotated")
  /\ UNCHANGED <<currentTurn, selectedSquare, possibleMoves, inCheck, gameOver, aiThinking>>

\* The requestAnimationFrame callback.  The frames with progress < 1 change only
\* the view angles and request the next frame; this is the frame with progress = 1.
animateRotation ==
  /\ animationActive
  /\ animationActive' = FALSE
  /\ ev' = Event("animateRotation", nullPos, -1, FALSE, "complete")
  /\ UNCHANGED gameVars

\* mutant of newGame: the turn is not handed back to white
newGame_keepsTurn ==
  /\ faces' = createCubeFaces
  /\ selectedSquare' = nullPos
  /\ possibleMoves' = <<>>
  /\ inCheck' = FALSE
  /\ gameOver' = FALSE
  /\ ev' = Event("newGame", nullPos, -1, FALSE, "reset")
  /\ UNCHANGED <<currentTurn, aiThinking, animationActive>>

newGame ==
  /\ faces' = createCubeFaces
  /\ currentTurn' = WHITE
  /\ selectedSquare' = nullPos
  /\ possibleMoves' = <<>>
  /\ inCheck' = FALSE
  /\ gameOver' = FALSE
  /\ ev' = Event("newGame", nullPos, -1, FALSE, "reset")
  /\ UNCHANGED <<aiThinking, animationActive>>

(***************************************************************************)
(* Tetris (src/script.js): the state object and the functions on it.  The  *)
(* functions of the source read and write the global `state`; here they    *)
(* take the state record s and give the record after the call.  lastTime   *)
(* and dropAccumulator are not kept: the frame action draws whether the    *)
(* accumulated time has reached dropInterval.                              *)
(***************************************************************************)
COLS == 10
ROWS == 20

BASE_SHAPES ==
  [I |-> << <<0,0,0,0>>, <<1,1,1,1>>, <<0,0,0,0>>, <<0,0,0,0>> >>,
   J |-> << <<1,0,0>>, <<1,1,1>>, <<0,0,0>> >>,
   L |-> << <<0,0,1>>, <<1,1,1>>, <<0,0,0>> >>,
   O |-> << <<1,1>>, <<1,1>> >>,
   S |-> << <<0,1,1>>, <<1,1,0>>, <<0,0,0>> >>,
   T |-> << <<0,1,0>>, <<1,1,1>>, <<0,0,0>> >>,
   Z |-> << <<1,1,0>>, <<0,1,1>>, <<0,0,0>> >>]

TYPE_ORDER == << "I", "J", "L", "O", "S", "T", "Z" >>

TYPE_COLOR ==
  [I |-> "#00F0F0", J |-> "#0000F0", L |-> "#F0A000", O |-> "#F0F000",
   S |-> "#00F000", T |-> "#A000F0", Z |-> "#F00000"]

\* the value 0 of an empty grid cell, written as a string like the colors
EmptyCell == "0"

createGrid(r, c, val) == [y \in 0..(r - 1) |-> [x \in 0..(c - 1) |-> val]]

\* state.current = null
noPiece == [type |-> "null", rotation |-> 0, shape |-> <<>>, x |-> 0, y |-> 0]

\* the object literal `state`
stateAtLoad ==
  [grid |-> createGrid(ROWS, COLS, EmptyCell),
   current |-> noPiece,
   nextQueue |-> <<>>,
   bag |-> <<>>,
   score |-> 0,
   lines |-> 0,
   level |-> 1,
   dropInterval |-> 1000,
   playing |-> FALSE,
   paused |-> FALSE,
   gameOver |-> FALSE]

\* res[x][rows - 1 - y] = mat[y][x]
rotateMatrixCW(mat) ==
  LET rows == Len(mat)
      cols == Len(mat[1])
  IN [a \in 1..cols |-> [b \in 1..rows |-> mat[rows - b + 1][a]]]

RECURSIVE rotateTimes(_, _)
rotateTimes(mat, n) == IF n = 0 THEN mat ELSE rotateMatrixCW(rotateTimes(mat, n - 1))

rotateN(mat, n) == rotateTimes(mat, ((n % 4) + 4) % 4)

\* number of empty rows at the top of the shape
getTopOffset(shape) ==
  LET filled == {y \in 1..Len(shape) : \E x \in 1..Len(shape[y]) : shape[y][x] = 1}
  IN IF filled = {} THEN Len(shape)
     ELSE (CHOOSE y \in filled : \A z \in filled : y <= z) - 1

\* refillNextQueue: an empty bag is refilled with the shuffled types (perm is
\* what shuffle returns); the bag is popped into the queue up to five entries
refillNextQueue(queue, bag, perm) ==
  LET filledBag == IF Len(bag) = 0 THEN perm ELSE bag
      room == 5 - Len(queue)
      take == IF Len(filledBag) < room THEN Len(filledBag) ELSE IF room < 0 THEN 0 ELSE room
  IN [nextQueue |-> queue \o [i \in 1..take |-> filledBag[Len(filledBag) - i + 1]],
      bag |-> SubSeq(filledBag, 1, Len(filledBag) - take)]

\* newPiece: the piece, and the queue and the bag it leaves
newPiece(queue, bag, perm) ==
  LET filled == IF Len(queue) < 3 THEN refillNextQueue(queue, bag, perm)
                                  ELSE [nextQueue |-> queue, bag |-> bag]
      type == Head(filled.nextQueue)
      shape == rotateN(BASE_SHAPES[type], 0)
  IN [piece |-> [type |-> type,
                 rotation |-> 0,
                 shape |-> shape,
                 x |-> (COLS - Len(shape[1])) \div 2,
                 y |-> 0 - getTopOffset(shape)],
      nextQueue |-> Tail(filled.nextQueue),
      bag |-> filled.bag]

collides(grid, shape, offX, offY) ==
  \E y \in 1..Len(shape) : \E x \in 1..Len(shape[y]) :
    /\ shape[y][x] = 1
    /\ LET gridX == offX + x - 1
           gridY == offY + y - 1
       IN \/ gridX < 0
          \/ gridX >= COLS
          \/ gridY >= ROWS
          \/ (gridY >= 0 /\ grid[gridY][gridX] # EmptyCell)

mergePiece(grid, cur) ==
  [gy \in 0..(ROWS - 1) |-> [gx \in 0..(COLS - 1) |->
     LET j == gy - cur.y + 1
         i == gx - cur.x + 1
     IN IF j >= 1 /\ j <= Len(cur.shape) /\ i >= 1 /\ i <= Len(cur.shape[1]) /\ cur.shape[j][i] = 1
          THEN TYPE_COLOR[cur.type]
          ELSE grid[gy][gx]]]

lineScores == << 0, 100, 300, 500, 800 >>

hasEmptyCell(row) == \E x \in 0..(COLS - 1) : row[x] = EmptyCell

updateDropInterval(level) ==
  LET speed == 1000 - (level - 1) * 75
  IN IF speed > 100 THEN speed ELSE 100

\* clearLines: the full rows are spliced out and empty rows unshifted
clearLines(s) ==
  LET rowsTopDown == [n \in 1..ROWS |-> s.grid[n - 1]]
      kept == SelectSeq(rowsTopDown, hasEmptyCell)
      linesCleared == ROWS - Len(kept)
      newLines == s.lines + linesCleared
      newLevel == (newLines \div 10) + 1
  IN IF linesCleared = 0 THEN s
     ELSE [s EXCEPT !.grid = [y \in 0..(ROWS - 1) |->
                                IF y < linesCleared THEN [x \in 0..(COLS - 1) |-> EmptyCell]
                                                    ELSE kept[y - linesCleared + 1]],
                    !.score = s.score + lineScores[linesCleared + 1],
                    !.lines = newLines,
                    !.level = newLevel,
                    !.dropInterval = IF newLevel # s.level THEN updateDropInterval(newLevel)
                                                           ELSE s.dropInterval]

setGameOver(s) == [s EXCEPT !.gameOver = TRUE, !.playing = FALSE, !.paused = FALSE]

lockPiece(s, perm) ==
  LET merged == [s EXCEPT !.grid = mergePiece(s.grid, s.current)]
      cleared == clearLines(merged)
      next == newPiece(cleared.nextQueue, cleared.bag, perm)
      spawned == [cleared EXCEPT !.current = next.piece,
                                 !.nextQueue = next.nextQueue,
                                 !.bag = next.bag]
  IN IF collides(spawned.grid, next.piece.shape, next.piece.x, next.piece.y)
       THEN setGameOver(spawned)
       ELSE spawned

\* the row the piece rests on: y is raised while the square below is free
RECURSIVE restingY(_, _, _, _)
restingY(grid, shape, x, y) ==
  IF collides(grid, shape, x, y + 1) THEN y ELSE restingY(grid, shape, x, y + 1)

hardDrop(s, perm) ==
  IF ~s.playing \/ s.paused THEN s
  ELSE LET landed == restingY(s.grid, s.current.shape, s.current.x, s.current.y)
           drops == landed - s.current.y
       IN lockPiece([s EXCEPT !.current.y = landed, !.score = s.score + drops * 2], perm)

softDropStep(s, perm) ==
  IF ~collides(s.grid, s.current.shape, s.current.x, s.current.y + 1)
    THEN [s EXCEPT !.current.y = s.current.y + 1, !.score = s.score + 1]
    ELSE lockPiece(s, perm)

kicks == << <<0, 0>>, <<-1, 0>>, <<1, 0>>, <<-2, 0>>, <<2, 0>>, <<0, -1>> >>

rotateCurrent(s, dir) ==
  LET newRot == (((s.current.rotation + dir) % 4) + 4) % 4
      rotated == rotateN(BASE_SHAPES[s.current.type], newRot)
      fits == {n \in 1..Len(kicks) :
                 ~collides(s.grid, rotated, s.current.x + kicks[n][1], s.current.y + kicks[n][2])}
  IN IF fits = {} THEN s
     ELSE LET n == CHOOSE k \in fits : \A o \in fits : k <= o
          IN [s EXCEPT !.current.shape = rotated,
                       !.current.rotation = newRot,
                       !.current.x = s.current.x + kicks[n][1],
                       !.current.y = s.current.y + kicks[n][2]]

move(s, dx) ==
  IF ~collides(s.grid, s.current.shape, s.current.x + dx, s.current.y)
    THEN [s EXCEPT !.current.x = s.current.x + dx]
    ELSE s

\* step(delta); due: dropAccumulator + delta has reached dropInterval
step(s, due, perm) ==
  IF ~s.playing \/ s.paused \/ s.gameOver THEN s
  ELSE IF ~due THEN s
  ELSE IF ~collides(s.grid, s.current.shape, s.current.x, s.current.y + 1)
         THEN [s EXCEPT !.current.y = s.current.y + 1]
         ELSE lockPiece(s, perm)

startGame(s, perm) ==
  IF ~s.playing
    THEN LET first == newPiece(s.nextQueue, s.bag, perm)
         IN IF s.current = noPiece
              THEN [s EXCEPT !.playing = TRUE, !.paused = FALSE,
                             !.current = first.piece,
                             !.nextQueue = first.nextQueue,
                             !.bag = first.bag]
              ELSE [s EXCEPT !.playing = TRUE, !.paused = FALSE]
    ELSE s

togglePause(s) ==
  IF ~s.playing \/ s.gameOver THEN s ELSE [s EXCEPT !.paused = ~s.paused]

resetGame(s) == stateAtLoad

\* the keydown listener; k is e.key.toLowerCase()
keydown(s, k, perm) ==
  IF ~s.playing /\ ~s.gameOver THEN s
  ELSE IF k \in {"escape", "p"} THEN togglePause(s)
  ELSE IF s.paused THEN s
  ELSE CASE k \in {"arrowleft", "a"} -> move(s, -1)
         [] k \in {"arrowright", "d"} -> move(s, 1)
         [] k \in {"arrowdown", "s"} -> softDropStep(s, perm)
         [] k \in {"arrowup", "w", "x", "k"} -> rotateCurrent(s, 1)
         [] k \in {"z", "q"} -> rotateCurrent(s, -1)
         [] k = " " -> hardDrop(s, perm)
         [] OTHER -> s

\* the state after updateUI() has run: gameState's initial fields, faces = createCubeFaces()
InitialGame ==
  /\ faces = createCubeFaces
  /\ currentTurn = WHITE
  /\ selectedSquare = nullPos
  /\ possibleMoves = <<>>
  /\ inCheck = FALSE
  /\ gameOver = FALSE
  /\ aiThinking = FALSE
  /\ animationActive = FALSE

\* no event handled yet, nothing pending
NoEvents ==
  /\ timers = 0
  /\ twists = 0
  /\ ev = Event("init", nullPos, -1, FALSE, "init")
  /\ steps = 0

NoCall == [fn |-> "none"]

Init ==
  /\ InitialGame
  /\ NoEvents
  /\ call = NoCall
  /\ ret = <<>>
  /\ state = stateAtLoad

\* one more event is handled; the variables of the other versions stay as they are
Tick ==
  /\ steps < MaxSteps
  /\ steps' = steps + 1
  /\ UNCHANGED <<timers, twists, call, ret>>

Click ==
  /\ Tick
  /\ \E sq \in ClickSquares : handleSquareClick(sq.face, sq.row, sq.col)
  /\ UNCHANGED animationActive
  /\ UNCHANGED state

RotateRow ==
  /\ Tick
  /\ \E i \in RotIndices, cw \in BOOLEAN : rotateRow(i, cw)
  /\ UNCHANGED state

RotateColumn ==
  /\ Tick
  /\ \E i \in RotIndices, cw \in BOOLEAN : rotateColumn(i, cw)
  /\ UNCHANGED state

AnimationFrame ==
  /\ Tick
  /\ animateRotation
  /\ UNCHANGED state

NewGame ==
  /\ Tick
  /\ newGame
  /\ UNCHANGED state

Next ==
  \/ Click
  \/ RotateRow
  \/ RotateColumn
  \/ AnimationFrame
  \/ NewGame

Spec == Init /\ [][Next]_vars

(***************************************************************************)
(* Properties of the collision-aware game (specification Spec)             *)
(***************************************************************************)
clicked(e) == e.op = "handleSquareClick"

\* C6: successful move application.  When a piece of the active color is
\* selected and one of its computed legal destinations is clicked, afterwards
\* the origin is empty, the destination holds the piece that stood on the
\* origin, every other square of the six faces is unchanged, the turn has
\* passed to the other color and the selection and destination list are empty.
C6_MoveApplication ==
  [][ ( /\ clicked(ev')
        /\ selectedSquare # nullPos
        /\ At(faces, selectedSquare) # null
        /\ At(faces, selectedSquare).color = currentTurn
        /\ ev'.sq \in Range(possibleMoves) )
      => ( /\ At(faces', selectedSquare) = null
           /\ At(faces', ev'.sq) = At(faces, selectedSquare)
           /\ \A s \in Squares \ {selectedSquare, ev'.sq} : At(faces', s) = At(faces, s)
           /\ currentTurn' \in COLORS /\ currentTurn' # currentTurn
           /\ selectedSquare' = nullPos
           /\ possibleMoves' = <<>> ) ]_vars

\* the scenario of the specification: the white pawn of front (6,4) has moved to (5,4)
C6_Witness ==
  /\ clicked(ev) /\ ev.sq = Pos("front", 5, 4)
  /\ faces["front"][5][4] = Piece(PAWN, WHITE)
  /\ faces["front"][6][4] = null
  /\ currentTurn = BLACK
  /\ selectedSquare = nullPos

StandardSetup ==
  [f \in FaceSet |-> [r \in Idx |-> [c \in Idx |->
     CASE f = "front" /\ r = 7 -> Piece(pieceOrder[c + 1], WHITE)
       [] f = "front" /\ r = 6 -> Piece(PAWN, WHITE)
       [] f = "back" /\ r = 0  -> Piece(pieceOrder[c + 1], BLACK)
       [] f = "back" /\ r = 1  -> Piece(PAWN, BLACK)
       [] OTHER -> null ]]]

\* C9: newGame, called in any reachable state, resets to the standard two-face
\* setup with white to move and clears selection, destinations and inCheck.
C9_NewGameResets ==
  [][ ev'.op = "newGame"
      => ( /\ faces' = StandardSetup
           /\ currentTurn' = WHITE
           /\ selectedSquare' = nullPos
           /\ possibleMoves' = <<>>
           /\ inCheck' = FALSE ) ]_vars

\* newGame has run while a slice rotation was still being animated
C9_Witness ==
  /\ ev.op = "newGame"
  /\ animationActive
  /\ steps >= 3
  /\ faces = StandardSetup

\* C10: selectSquare.  Whenever input is accepted, clicking a square that holds a
\* piece of the active color makes it the selection with exactly that piece's
\* legal destinations; clicking any other square that is not a legal destination
\* of the current selection leaves selection and destination list empty.
C10_SelectSquare ==
  [][ ( clicked(ev') /\ ~gameOver /\ ~aiThinking )
      => LET sq == ev'.sq
             piece == At(faces, sq)
         IN IF piece # null /\ piece.color = currentTurn
              THEN /\ selectedSquare' = sq
                   /\ Range(possibleMoves') = Range(getValidMoves(faces, sq.face, sq.row, sq.col))
              ELSE (selectedSquare = nullPos \/ sq \notin Range(possibleMoves))
                     => (selectedSquare' = nullPos /\ possibleMoves' = <<>>) ]_vars

(***************************************************************************)
(* The face adjacency table on its own (specification SpecAdj): Init draws *)
(* an edge square and the direction that leaves the face there; the two    *)
(* actions cross the edge and cross back.                                  *)
(***************************************************************************)
Directions == {"up", "down", "left", "right"}

opposite(d) ==
  CASE d = "up" -> "down"
    [] d = "down" -> "up"
    [] d = "left" -> "right"
    [] d = "right" -> "left"

\* direction d leaves the face from (row, col): the test getNextPosition makes
leavesFace(row, col, d) ==
  CASE d = "up" -> row - 1 < 0
    [] d = "down" -> row + 1 >= 8
    [] d = "left" -> col - 1 < 0
    [] d = "right" -> col + 1 >= 8

InitAdj ==
  /\ InitialGame
  /\ NoEvents
  /\ \E f \in FaceSet, r \in Idx, c \in Idx, d \in Directions :
       /\ leavesFace(r, c, d)
       /\ call = [fn |-> "getAdjacentFacePosition", face |-> f, row |-> r, col |-> c, direction |-> d]
  /\ ret = <<>>
  /\ state = stateAtLoad

CrossEdge ==
  /\ Len(ret) = 0
  /\ ret' = << getAdjacentFacePosition(call.face, call.row, call.col, call.direction) >>
  /\ UNCHANGED <<gameVars, animationActive, timers, twists, ev, steps, call>>
  /\ UNCHANGED state

CrossBack ==
  /\ Len(ret) = 1
  /\ ret[1] # nullPos
  /\ ret' = Append(ret, getAdjacentFacePosition(ret[1].face, ret[1].row, ret[1].col,
                                                opposite(call.direction)))
  /\ UNCHANGED <<gameVars, animationActive, timers, twists, ev, steps, call>>
  /\ UNCHANGED state

NextAdj ==
  \/ CrossEdge
  \/ CrossBack

SpecAdj == InitAdj /\ [][NextAdj]_vars

\* C1: adjacency round trip.  For every face, direction and edge square from
\* which the direction leaves the face, crossing the edge and crossing back in
\* the opposite direction returns the original (face, row, col).
C1_AdjacencyRoundTrip ==
  Len(ret) = 2 => ret[2] = Pos(call.face, call.row, call.col)

(***************************************************************************)
(* Sample boards for the specifications that draw a board in Init: the     *)
(* standard setup, the 32 standard pieces packed into four rows of one     *)
(* face, and the 32 pieces scattered over the six faces.                   *)
(***************************************************************************)
\* the 32 pieces of a game, numbered 0..31
StdPiece(j) ==
  IF j < 8 THEN Piece(pieceOrder[j + 1], WHITE)
  ELSE IF j < 16 THEN Piece(PAWN, WHITE)
  ELSE IF j < 24 THEN Piece(PAWN, BLACK)
  ELSE Piece(pieceOrder[j - 23], BLACK)

\* squares numbered face by face, row by row
CellIndex(f, r, c) ==
  64 * ((CHOOSE i \in 1..Len(FACE_NAMES) : FACE_NAMES[i] = f) - 1) + 8 * r + c

\* piece (5t mod 32) on the t-th square from square number b on
BlockBoard(b) ==
  [f \in FaceSet |-> [r \in Idx |-> [c \in Idx |->
     LET t == CellIndex(f, r, c) - b
     IN IF t >= 0 /\ t < 32 THEN StdPiece((5 * t) % 32) ELSE null ]]]

\* piece j on square number (a * j + b) mod 384
ScatterBoard(a, b) ==
  [f \in FaceSet |-> [r \in Idx |-> [c \in Idx |->
     LET t == CellIndex(f, r, c)
         js == {j \in 0..31 : (a * j + b) % 384 = t}
     IN IF js = {} THEN null ELSE StdPiece(CHOOSE j \in js : TRUE) ]]]

ScatterParams == << <<7, 0>>, <<7, 3>>, <<11, 60>>, <<13, 5>>, <<29, 100>>, <<35, 17>>,
                    <<9, 56>>, <<65, 7>>, <<3, 180>>, <<17, 250>>, <<1, 28>>, <<1, 92>> >>

\* the standard setup after the white pawn of front (6,0) has been lost and a
\* black pawn has come to stand on front (5,0), two squares from the white rook
OpenFileBoard ==
  [createCubeFaces EXCEPT !["front"][6][0] = null,
                          !["back"][1][0] = null,
                          !["front"][5][0] = Piece(PAWN, BLACK)]

Boards ==
  << createCubeFaces, OpenFileBoard >>
  \o [k \in 1..12 |-> BlockBoard(32 * (k - 1))]
  \o [k \in 1..Len(ScatterParams) |-> ScatterBoard(ScatterParams[k][1], ScatterParams[k][2])]

\* the pieces (with multiplicity) standing on the faces fset of board fs
PieceCount(fs, fset, p) ==
  Cardinality({x \in fset \X Idx \X Idx : fs[x[1]][x[2]][x[3]] = p})

AllPieces == {Piece(t, c) : t \in PIECES, c \in COLORS}

(***************************************************************************)
(* Rotation system of the rook/pawn version (lines 1682-1726)              *)
(***************************************************************************)
\* mutant of rotateRowFacesRP: the counter-clockwise branch cycles the rows
\* in the clockwise order
rotateRowFacesRP_oneWay(fs, rowIndex, clockwise) ==
  LET temp == fs["right"][rowIndex]
      f1 == [fs EXCEPT !["right"][rowIndex] = fs["front"][rowIndex]]
      f2 == [f1 EXCEPT !["front"][rowIndex] = f1["left"][rowIndex]]
      f3 == [f2 EXCEPT !["left"][rowIndex] = f2["back"][rowIndex]]
  IN [f3 EXCEPT !["back"][rowIndex] = temp]

rotateRowFacesRP(fs, rowIndex, clockwise) ==
  IF clockwise
    THEN LET temp == fs["right"][rowIndex]
             f1 == [fs EXCEPT !["right"][rowIndex] = fs["front"][rowIndex]]
             f2 == [f1 EXCEPT !["front"][rowIndex] = f1["left"][rowIndex]]
             f3 == [f2 EXCEPT !["left"][rowIndex] = f2["back"][rowIndex]]
         IN [f3 EXCEPT !["back"][rowIndex] = temp]
    ELSE LET temp == fs["left"][rowIndex]
             f1 == [fs EXCEPT !["left"][rowIndex] = fs["front"][rowIndex]]
             f2 == [f1 EXCEPT !["front"][rowIndex] = f1["right"][rowIndex]]
             f3 == [f2 EXCEPT !["right"][rowIndex] = f2["back"][rowIndex]]
         IN [f3 EXCEPT !["back"][rowIndex] = temp]

\* mutant of rotateColumnFacesRP: the back face is read and written without
\* reversing the row order
rotateColumnFacesRP_noReversal(fs, colIndex, clockwise) ==
  IF clockwise
    THEN LET temp == [i \in Idx |-> fs["bottom"][i][colIndex]]
             f1 == setColumn(fs, "bottom", colIndex, [i \in Idx |-> fs["front"][i][colIndex]])
             f2 == setColumn(f1, "front", colIndex, [i \in Idx |-> f1["top"][i][colIndex]])
             f3 == setColumn(f2, "top", colIndex, [i \in Idx |-> f2["back"][7 - i][7 - colIndex]])
         IN setColumn(f3, "back", 7 - colIndex, [i \in Idx |-> temp[i]])
    ELSE LET temp == [i \in Idx |-> fs["top"][i][colIndex]]
             f1 == setColumn(fs, "top", colIndex, [i \in Idx |-> fs["front"][i][colIndex]])
             f2 == setColumn(f1, "front", colIndex, [i \in Idx |-> f1["bottom"][i][colIndex]])
             f3 == setColumn(f2, "bottom", colIndex, [i \in Idx |-> f2["back"][7 - i][7 - colIndex]])
         IN setColumn(f3, "back", 7 - colIndex, [i \in Idx |-> temp[i]])

rotateColumnFacesRP(fs, colIndex, clockwise) ==
  IF clockwise
    THEN LET temp == [i \in Idx |-> fs["bottom"][i][colIndex]]
             f1 == setColumn(fs, "bottom", colIndex, [i \in Idx |-> fs["front"][i][colIndex]])
             f2 == setColumn(f1, "front", colIndex, [i \in Idx |-> f1["top"][i][colIndex]])
             f3 == setColumn(f2, "top", colIndex, [i \in Idx |-> f2["back"][7 - i][7 - colIndex]])
         IN setColumn(f3, "back", 7 - colIndex, [i \in Idx |-> temp[7 - i]])
    ELSE LET temp == [i \in Idx |-> fs["top"][i][colIndex]]
             f1 == setColumn(fs, "top", colIndex, [i \in Idx |-> fs["front"][i][colIndex]])
             f2 == setColumn(f1, "front", colIndex, [i \in Idx |-> f1["bottom"][i][colIndex]])
             f3 == setColumn(f2, "bottom", colIndex, [i \in Idx |-> f2["back"][7 - i][7 - colIndex]])
         IN setColumn(f3, "back", 7 - colIndex, [i \in Idx |-> temp[7 - i]])

rotateRowRP(rowIndex, clockwise) ==
  /\ IF aiThinking
       THEN /\ UNCHANGED faces
            /\ ev' = Event("rotateRow", nullPos, rowIndex, clockwise, "rejected")
       ELSE /\ faces' = rotateRowFacesRP(faces, rowIndex, clockwise)
            /\ ev' = Event("rotateRow", nullPos, rowIndex, clockwise, "rotated")
  /\ UNCHANGED <<currentTurn, selectedSquare, possibleMoves, inCheck, gameOver, aiThinking>>

rotateColumnRP(colIndex, clockwise) ==
  /\ IF aiThinking
       THEN /\ UNCHANGED faces
            /\ ev' = Event("rotateColumn", nullPos, colIndex, clockwise, "rejected")
       ELSE /\ faces' = rotateColumnFacesRP(faces, colIndex, clockwise)
            /\ ev' = Event("rotateColumn", nullPos, colIndex, clockwise, "rotated")
  /\ UNCHANGED <<currentTurn, selectedSquare, possibleMoves, inCheck, gameOver, aiThinking>>

(***************************************************************************)
(* Repeated rotation of one slice in the rook/pawn version (specification  *)
(* SpecRotRP): Init draws a board and a slice; each step rotates that      *)
(* slice in a direction of the player's choice; ret lists the directions.  *)
(***************************************************************************)
\* number of rotations applied in a row
MaxRot == 4

InitRotRP ==
  /\ \E k \in 1..Len(Boards) : \E kind \in {"row", "column"} : \E i \in Idx :
       /\ faces = Boards[k]
       /\ call = [fn |-> "rotate", kind |-> kind, index |-> i, board |-> k]
  /\ currentTurn = WHITE
  /\ selectedSquare = nullPos
  /\ possibleMoves = <<>>
  /\ inCheck = FALSE
  /\ gameOver = FALSE
  /\ aiThinking = FALSE
  /\ animationActive = FALSE
  /\ NoEvents
  /\ ret = <<>>
  /\ state = stateAtLoad

RotateSliceRP ==
  /\ Len(ret) < MaxRot
  /\ \E cw \in BOOLEAN :
       /\ IF call.kind = "row" THEN rotateRowRP(call.index, cw)
                               ELSE rotateColumnRP(call.index, cw)
       /\ ret' = Append(ret, cw)
  /\ steps' = steps + 1
  /\ UNCHANGED <<animationActive, timers, twists, call>>
  /\ UNCHANGED state

NextRotRP == RotateSliceRP

SpecRotRP == InitRotRP /\ [][NextRotRP]_vars

\* C2: rotation periodicity.  For every index 0..7 and both directions, four
\* applications of rotateRow(i, dir), or of rotateColumn(i, dir), give back
\* exactly the board they started from, on all six faces.
C2_RotationPeriodicity ==
  (Len(ret) = 4 /\ \A n \in 1..4 : ret[n] = ret[1]) => faces = Boards[call.board]

\* four clockwise rotations of column 3 of the standard setup, which moved pieces
\* through the back face, have been applied
C2_Witness ==
  /\ ret = <<TRUE, TRUE, TRUE, TRUE>>
  /\ call.kind = "column" /\ call.index = 3 /\ call.board = 1
  /\ rotateColumnFacesRP(Boards[1], 3, TRUE) # Boards[1]
  /\ faces = Boards[1]

(***************************************************************************)
(* Slice rotations of the collision-aware version on a drawn board         *)
(* (specification SpecRot): Init draws the board; the player rotates any   *)
(* row or column, and the animation frames run in between.                 *)
(***************************************************************************)
\* number of rotation events (button clicks and final animation frames) in one run
MaxRotEvents == 2

InitRot ==
  /\ \E k \in 1..Len(Boards) :
       /\ faces = Boards[k]
       /\ call = [fn |-> "rotate", board |-> k]
  /\ currentTurn = WHITE
  /\ selectedSquare = nullPos
  /\ possibleMoves = <<>>
  /\ inCheck = FALSE
  /\ gameOver = FALSE
  /\ aiThinking = FALSE
  /\ animationActive = FALSE
  /\ NoEvents
  /\ ret = <<>>
  /\ state = stateAtLoad

TickRot ==
  /\ steps < MaxRotEvents
  /\ steps' = steps + 1
  /\ UNCHANGED <<timers, twists, call, ret>>

RotateAnyRow ==
  /\ TickRot
  /\ \E i \in Idx, cw \in BOOLEAN : rotateRow(i, cw)
  /\ UNCHANGED state

RotateAnyColumn ==
  /\ TickRot
  /\ \E i \in Idx, cw \in BOOLEAN : rotateColumn(i, cw)
  /\ UNCHANGED state

RotationFrame ==
  /\ TickRot
  /\ animateRotation
  /\ UNCHANGED state

NextRot ==
  \/ RotateAnyRow
  \/ RotateAnyColumn
  \/ RotationFrame

SpecRot == InitRot /\ [][NextRot]_vars

\* the four faces a slice of the given kind runs through
affectedFaces(op) ==
  IF op = "rotateRow" THEN {"front", "right", "back", "left"}
                      ELSE {"front", "top", "back", "bottom"}

\* C3: rotation is a bijection on occupancy.  For every index 0..7 and both
\* directions, one rotateRow or rotateColumn leaves the multiset of pieces
\* (type, color) on the four affected faces unchanged.
C3_RotationKeepsPieces ==
  [][ ev'.op \in {"rotateRow", "rotateColumn"}
      => \/ faces' = faces    \* a request refused while an animation runs
         \/ \A p \in AllPieces :
              PieceCount(faces', affectedFaces(ev'.op), p) = PieceCount(faces, affectedFaces(ev'.op), p) ]_vars

\* column 3 of the standard setup has been rotated counter-clockwise: the white
\* queen went from front to top, the black king from back to bottom
C3_Witness ==
  /\ ev.op = "rotateColumn" /\ ev.index = 3 /\ ~ev.clockwise
  /\ call.board = 1
  /\ faces["front"][7][3] = null
  /\ faces["top"][7][3] = Piece(QUEEN, WHITE)
  /\ faces["bottom"][7][3] = Piece(KING, BLACK)

(***************************************************************************)
(* Move generation of the collision-aware version on a drawn board         *)
(* (specification SpecMoves): Init draws a board and an occupied square,   *)
(* the action calls getValidMoves and, for a sliding piece,                *)
(* getPathPositions in each of its directions.                             *)
(***************************************************************************)
\* the directions getValidMoves walks for a piece type (none for the jumping pieces)
walkDirections(type) ==
  CASE type = ROOK -> rookDirections
    [] type = BISHOP -> bishopDirections
    [] type = QUEEN -> queenDirections
    [] OTHER -> <<>>

InitMoves ==
  /\ \E k \in 1..Len(Boards) : \E sq \in Squares :
       /\ Boards[k][sq.face][sq.row][sq.col] # null
       /\ faces = Boards[k]
       /\ call = [fn |-> "getValidMoves", board |-> k, sq |-> sq]
  /\ currentTurn = WHITE
  /\ selectedSquare = nullPos
  /\ possibleMoves = <<>>
  /\ inCheck = FALSE
  /\ gameOver = FALSE
  /\ aiThinking = FALSE
  /\ animationActive = FALSE
  /\ NoEvents
  /\ ret = [done |-> FALSE]
  /\ state = stateAtLoad

CallGetValidMoves ==
  /\ ~ret.done
  /\ LET sq == call.sq
         dirs == walkDirections(At(faces, sq).type)
     IN ret' = [done |-> TRUE,
                moves |-> getValidMoves(faces, sq.face, sq.row, sq.col),
                paths |-> [i \in 1..Len(dirs) |->
                             getPathPositions(faces, sq.face, sq.row, sq.col, dirs[i][1], dirs[i][2])]]
  /\ UNCHANGED <<gameVars, animationActive, timers, twists, ev, steps, call>>
  /\ UNCHANGED state

NextMoves == CallGetValidMoves

SpecMoves == InitMoves /\ [][NextMoves]_vars

\* the n-th square of the walk from p in direction d: n steps of getNextPosition
RECURSIVE WalkSquare(_, _, _)
WalkSquare(p, d, n) ==
  IF n = 0 THEN p
  ELSE LET q == WalkSquare(p, d, n - 1)
       IN getNextPosition(q.face, q.row, q.col, d[1], d[2])

\* the walk of a sliding piece: at most maxSteps steps
Walk(p, d) == [n \in 1..maxSteps |-> WalkSquare(p, d, n)]

\* index of the first occupied square of walk w, maxSteps + 1 when all are empty
FirstOccupied(fs, w) ==
  LET occ == {n \in 1..Len(w) : At(fs, w[n]) # null}
  IN IF occ = {} THEN Len(w) + 1 ELSE CHOOSE n \in occ : \A m \in occ : n <= m

isSlider(p) == p.type \in {ROOK, BISHOP, QUEEN}

\* C4: sliding-piece blocking.  For a rook, bishop or queen and each of its
\* walk directions, the destinations in that direction are the empty squares met
\* before the first occupied square, plus that square only if it holds a piece
\* of the other color; nothing beyond the first occupied square is a destination.
\* The walk is the one getPathPositions makes: at most maxSteps squares.
C4_SlidingBlocking ==
  (ret.done /\ isSlider(At(faces, call.sq)))
  => LET mover == At(faces, call.sq)
         dirs == walkDirections(mover.type)
     IN /\ Len(ret.paths) = Len(dirs)
        /\ \A i \in 1..Len(dirs) :
             LET w == Walk(call.sq, dirs[i])
                 k == FirstOccupied(faces, w)
                 capture == IF k <= Len(w) /\ At(faces, w[k]).color # mover.color
                              THEN << w[k] >> ELSE <<>>
             IN ret.paths[i] = SubSeq(w, 1, k - 1) \o capture
        /\ Range(ret.moves) = UNION {Range(ret.paths[i]) : i \in 1..Len(dirs)}

\* a rook with a piece of the other color two squares away and nothing in
\* between: the empty square and the capture are destinations, nothing beyond
C4_Witness ==
  /\ ret.done
  /\ At(faces, call.sq).type = ROOK
  /\ \E i \in 1..4 :
       LET w == Walk(call.sq, rookDirections[i])
       IN /\ At(faces, w[1]) = null
          /\ At(faces, w[2]) # null
          /\ At(faces, w[2]).color # At(faces, call.sq).color
          /\ ret.paths[i] = << w[1], w[2] >>
          /\ w[3] \notin Range(ret.moves)

\* C5: own-color blocking.  getValidMoves never returns, for a rook, bishop or
\* queen, a square occupied by a piece of the mover's color, and the walk stops
\* at such a square: no square behind it in that direction is returned.
C5_OwnColorBlocking ==
  (ret.done /\ isSlider(At(faces, call.sq)))
  => LET mover == At(faces, call.sq)
         dirs == walkDirections(mover.type)
     IN /\ \A m \in Range(ret.moves) : At(faces, m).color # mover.color
        /\ \A i \in 1..Len(dirs) :
             LET w == Walk(call.sq, dirs[i])
             IN \A n \in 1..Len(w) :
                  (At(faces, w[n]).color = mover.color) => Len(ret.paths[i]) < n

\* a queen whose walk in some direction passes two empty squares and then meets
\* a piece of her own color, with a square behind it
C5_Witness ==
  /\ ret.done
  /\ At(faces, call.sq).type = QUEEN
  /\ \E i \in 1..8 :
       LET w == Walk(call.sq, queenDirections[i])
       IN /\ FirstOccupied(faces, w) = 3
          /\ At(faces, w[3]).color = At(faces, call.sq).color
          /\ w[3] # call.sq
          /\ ret.paths[i] = << w[1], w[2] >>

(***************************************************************************)
(* The AI version (lines 1-814): the whole game is set up on the front     *)
(* face, pieces never leave their face, black is played by a random        *)
(* opponent that moves from a setTimeout callback.                         *)
(***************************************************************************)
FACES_AI == <<"front", "back", "right", "left", "top", "bottom">>

createInitialBoardAI ==
  [row \in Idx |-> [col \in Idx |->
     IF row = 0 THEN Piece(pieceOrder[col + 1], BLACK)
     ELSE IF row = 1 THEN Piece(PAWN, BLACK)
     ELSE IF row = 6 THEN Piece(PAWN, WHITE)
     ELSE IF row = 7 THEN Piece(pieceOrder[col + 1], WHITE)
     ELSE null ]]

createCubeFacesAI ==
  [f \in FaceSet |-> IF f = FACES_AI[1] THEN createInitialBoardAI ELSE emptyFace]

onBoard(r, c) == r >= 0 /\ r < 8 /\ c >= 0 /\ c < 8

\* `if (!target || target.color !== piece.color) moves.push(...)` for an on-board target
pushIfFree(fs, face, piece, r, c) ==
  IF onBoard(r, c) /\ (fs[face][r][c] = null \/ fs[face][r][c].color # piece.color)
    THEN << Pos(face, r, c) >> ELSE <<>>

\* case PAWN
pawnMovesAI(fs, face, row, col) ==
  LET piece == fs[face][row][col]
      direction == IF piece.color = WHITE THEN -1 ELSE 1
      newRow == row + direction
      onFace == newRow >= 0 /\ newRow < 8
      forward == IF onFace /\ fs[face][newRow][col] = null
                   THEN << Pos(face, newRow, col) >> ELSE <<>>
      captureLeft == IF onFace /\ col > 0 /\ fs[face][newRow][col - 1] # null
                        /\ fs[face][newRow][col - 1].color # piece.color
                       THEN << Pos(face, newRow, col - 1) >> ELSE <<>>
      captureRight == IF onFace /\ col < 7 /\ fs[face][newRow][col + 1] # null
                         /\ fs[face][newRow][col + 1].color # piece.color
                        THEN << Pos(face, newRow, col + 1) >> ELSE <<>>
  IN forward \o captureLeft \o captureRight

\* case ROOK (and the first loop of QUEEN): every square of the row and of the
\* column that does not hold a piece of the mover's color
lineMovesAI(fs, face, row, col) ==
  LET piece == fs[face][row][col]
  IN Flatten([n \in 1..8 |->
       LET i == n - 1
       IN (IF i # row THEN pushIfFree(fs, face, piece, i, col) ELSE <<>>)
          \o (IF i # col THEN pushIfFree(fs, face, piece, row, i) ELSE <<>>)])

\* case BISHOP (and the second loop of QUEEN): every on-board square of the four
\* diagonals that does not hold a piece of the mover's color
diagonalMovesAI(fs, face, row, col) ==
  LET piece == fs[face][row][col]
  IN Flatten([i \in 1..7 |->
       pushIfFree(fs, face, piece, row + i, col + i)
       \o pushIfFree(fs, face, piece, row + i, col - i)
       \o pushIfFree(fs, face, piece, row - i, col + i)
       \o pushIfFree(fs, face, piece, row - i, col - i)])

\* cases KNIGHT and KING: the on-board offsets
offsetMovesAI(fs, face, row, col, offsets) ==
  LET piece == fs[face][row][col]
  IN Flatten([n \in 1..Len(offsets) |->
       pushIfFree(fs, face, piece, row + offsets[n][1], col + offsets[n][2])])

getValidMovesAI(fs, face, row, col) ==
  LET piece == fs[face][row][col]
  IN IF piece = null THEN <<>>
     ELSE CASE piece.type = PAWN   -> pawnMovesAI(fs, face, row, col)
            [] piece.type = ROOK   -> lineMovesAI(fs, face, row, col)
            [] piece.type = KNIGHT -> offsetMovesAI(fs, face, row, col, knightMoves)
            [] piece.type = BISHOP -> diagonalMovesAI(fs, face, row, col)
            [] piece.type = QUEEN  -> lineMovesAI(fs, face, row, col) \o diagonalMovesAI(fs, face, row, col)
            [] piece.type = KING   -> offsetMovesAI(fs, face, row, col, kingDirections)
            [] OTHER -> <<>>

\* position of a square in the scan `for face of FACES / for row / for col`
scanIndex(p) ==
  64 * ((CHOOSE i \in 1..Len(FACES_AI) : FACES_AI[i] = p.face) - 1) + 8 * p.row + p.col

\* mutant of isInCheck: the pieces of the king's own color are examined
isInCheck_ownPieces(fs, color) ==
  LET kings == {p \in Squares : At(fs, p) = Piece(KING, color)}
  IN IF kings = {} THEN FALSE
     ELSE LET kingPos == CHOOSE k \in kings : \A o \in kings : scanIndex(k) <= scanIndex(o)
          IN \E p \in Squares :
               /\ At(fs, p) # null
               /\ At(fs, p).color = color
               /\ kingPos \in Range(getValidMovesAI(fs, p.face, p.row, p.col))

isInCheck(fs, color) ==
  LET kings == {p \in Squares : At(fs, p) = Piece(KING, color)}
  IN IF kings = {} THEN FALSE
     ELSE LET kingPos == CHOOSE k \in kings : \A o \in kings : scanIndex(k) <= scanIndex(o)
          IN \E p \in Squares :
               /\ At(fs, p) # null
               /\ At(fs, p).color # color
               /\ kingPos \in Range(getValidMovesAI(fs, p.face, p.row, p.col))

\* mutant of getAIMove: every piece of the color is sent to row 3 of its column
getAIMove_toRowThree(fs, color) ==
  {[from |-> p, to |-> Pos(p.face, 3, p.col)] :
     p \in {x \in Squares : At(fs, x) # null /\ At(fs, x).color = color /\ x.row # 3}}

\* mutant of getAIMove: the pieces of both colors are enumerated
getAIMove_anyColor(fs, color) ==
  {[from |-> p, to |-> m] : <<p, m>> \in
     UNION {{<<q, t>> : t \in Range(getValidMovesAI(fs, q.face, q.row, q.col))} :
              q \in {x \in Squares : At(fs, x) # null}}}

\* allMoves of getAIMove: Math.random picks any one of them (the empty set: null)
getAIMove(fs, color) ==
  {[from |-> p, to |-> m] : <<p, m>> \in
     UNION {{<<q, t>> : t \in Range(getValidMovesAI(fs, q.face, q.row, q.col))} :
              q \in {x \in Squares : At(fs, x) # null /\ At(fs, x).color = color}}}

\* the player's clicks in the AI version
ClickSquaresAI ==
  { Pos("front", 6, 4), Pos("front", 5, 4), Pos("front", 4, 4), Pos("front", 7, 6),
    Pos("front", 5, 5), Pos("front", 1, 4), Pos("front", 6, 3) }

\* number of events one run of the AI version handles
MaxStepsAI == 5

makeMoveAI(from, to) ==
  LET moved == makeMoveFaces(faces, from, to)
      opponentColor == otherColor(currentTurn)
  IN /\ faces' = moved
     /\ selectedSquare' = nullPos
     /\ possibleMoves' = <<>>
     /\ inCheck' = isInCheck(moved, opponentColor)
     /\ currentTurn' = opponentColor
     /\ IF opponentColor = BLACK
          THEN aiThinking' = TRUE /\ timers' = timers + 1
          ELSE UNCHANGED <<aiThinking, timers>>
     /\ UNCHANGED gameOver

handleSquareClickAI(face, row, col) ==
  LET clickedPiece == faces[face][row][col]
      sq == Pos(face, row, col)
  IN IF gameOver \/ aiThinking
       THEN /\ UNCHANGED <<gameVars, timers>>
            /\ ev' = Event("handleSquareClick", sq, -1, FALSE, "rejected")
       ELSE IF selectedSquare # nullPos /\ sq \in Range(possibleMoves)
         THEN /\ makeMoveAI(selectedSquare, sq)
              /\ ev' = Event("handleSquareClick", sq, -1, FALSE, "move")
         ELSE IF clickedPiece # null /\ clickedPiece.color = currentTurn
           THEN /\ selectedSquare' = sq
                /\ possibleMoves' = getValidMovesAI(faces, face, row, col)
                /\ UNCHANGED <<faces, currentTurn, inCheck, gameOver, aiThinking, timers>>
                /\ ev' = Event("handleSquareClick", sq, -1, FALSE, "select")
           ELSE IF selectedSquare # nullPos
             THEN /\ selectedSquare' = nullPos
                  /\ possibleMoves' = <<>>
                  /\ UNCHANGED <<faces, currentTurn, inCheck, gameOver, aiThinking, timers>>
                  /\ ev' = Event("handleSquareClick", sq, -1, FALSE, "deselect")
             ELSE /\ UNCHANGED <<gameVars, timers>>
                  /\ ev' = Event("handleSquareClick", sq, -1, FALSE, "none")

\* handleTwist: starts the 30-frame view animation unless in check or busy
handleTwist(clockwise) ==
  /\ IF inCheck \/ aiThinking
       THEN /\ UNCHANGED twists
            /\ ev' = Event("handleTwist", nullPos, -1, clockwise, "rejected")
       ELSE /\ twists' = twists + 1
            /\ ev' = Event("handleTwist", nullPos, -1, clockwise, "started")
  /\ UNCHANGED <<gameVars, timers>>

\* the last frame of a twist animation (step = steps): the frames before it
\* change the view angle only
twistCompleted ==
  /\ twists > 0
  /\ twists' = twists - 1
  /\ currentTurn' = otherColor(currentTurn)
  /\ IF otherColor(currentTurn) = BLACK
       THEN aiThinking' = TRUE /\ timers' = timers + 1
       ELSE UNCHANGED <<aiThinking, timers>>
  /\ ev' = Event("twistCompleted", nullPos, -1, FALSE, "complete")
  /\ UNCHANGED <<faces, selectedSquare, possibleMoves, inCheck, gameOver>>

\* the setTimeout callback of makeMove and of handleTwist
aiTimer ==
  /\ timers > 0
  /\ timers' = timers - 1
  /\ LET candidates == getAIMove(faces, BLACK)
     IN IF candidates = {}
          THEN /\ UNCHANGED <<faces, currentTurn, inCheck>>
               /\ ev' = Event("aiTimer", nullPos, -1, FALSE, "none")
          ELSE \E aiMove \in candidates :
                 LET moved == makeMoveFaces(faces, aiMove.from, aiMove.to)
                 IN /\ faces' = moved
                    /\ currentTurn' = WHITE
                    /\ inCheck' = isInCheck(moved, WHITE)
                    /\ ev' = Event("aiTimer", aiMove.to, -1, FALSE, "move")
  /\ aiThinking' = FALSE
  /\ UNCHANGED <<selectedSquare, possibleMoves, gameOver, twists>>

newGameAI ==
  /\ faces' = createCubeFacesAI
  /\ currentTurn' = WHITE
  /\ selectedSquare' = nullPos
  /\ possibleMoves' = <<>>
  /\ inCheck' = FALSE
  /\ gameOver' = FALSE
  /\ aiThinking' = FALSE
  /\ ev' = Event("newGame", nullPos, -1, FALSE, "reset")
  /\ UNCHANGED <<timers, twists>>

\* the state after init()
InitAI ==
  /\ faces = createCubeFacesAI
  /\ currentTurn = WHITE
  /\ selectedSquare = nullPos
  /\ possibleMoves = <<>>
  /\ inCheck = FALSE
  /\ gameOver = FALSE
  /\ aiThinking = FALSE
  /\ animationActive = FALSE
  /\ NoEvents
  /\ call = NoCall
  /\ ret = <<>>
  /\ state = stateAtLoad

TickAI ==
  /\ steps < MaxStepsAI
  /\ steps' = steps + 1
  /\ UNCHANGED <<animationActive, call, ret>>

ClickAI ==
  /\ TickAI
  /\ \E sq \in ClickSquaresAI : handleSquareClickAI(sq.face, sq.row, sq.col)
  /\ UNCHANGED twists
  /\ UNCHANGED state

TwistAI ==
  /\ TickAI
  /\ \E cw \in BOOLEAN : handleTwist(cw)
  /\ UNCHANGED state

TwistFrameAI ==
  /\ TickAI
  /\ twistCompleted
  /\ UNCHANGED state

TimerAI ==
  /\ TickAI
  /\ aiTimer
  /\ UNCHANGED state

NewGameAI ==
  /\ TickAI
  /\ newGameAI
  /\ UNCHANGED state

NextAI ==
  \/ ClickAI
  \/ TwistAI
  \/ TwistFrameAI
  \/ TimerAI
  \/ NewGameAI

SpecAI == InitAI /\ [][NextAI]_vars

\* C8: busy flag.  In every reachable state of the AI version in which an
\* opponent move scheduled by makeMove or handleTwist is still pending, a
\* square click changes neither the board, the turn nor the selection.
C8_BusyFlag ==
  [][ (clicked(ev') /\ timers > 0)
      => ( /\ faces' = faces
           /\ currentTurn' = currentTurn
           /\ selectedSquare' = selectedSquare
           /\ possibleMoves' = possibleMoves ) ]_vars

(***************************************************************************)
(* Further properties of the collision-aware game (specification Spec)     *)
(***************************************************************************)
\* C11: king invariant.  In every state reachable from the initial position by
\* moves the game accepts and slice rotations, the six faces hold exactly one
\* white king and exactly one black king.
C11_KingInvariant ==
  \A c \in COLORS : PieceCount(faces, FaceSet, Piece(KING, c)) = 1

(***************************************************************************)
(* The rotation buttons with the value of the free-text number field       *)
(* (specification SpecIdx): the handlers pass parseInt(value), which is    *)
(* any integer or NaN, straight to rotateRow / rotateColumn.               *)
(***************************************************************************)
\* parseInt results the player can produce: NaN (empty field), -1, 8 and slice indices
NaN == [isNaN |-> TRUE, value |-> 0]
Num(v) == [isNaN |-> FALSE, value |-> v]
ParsedIndices == {NaN} \cup {Num(v) : v \in {-1, 0, 3, 7, 8}}
isSliceIndex(x) == ~x.isNaN /\ x.value \in Idx

\* the callback handed to requestAnimationFrame by animateRotation
FrameRequest == [fn |-> "animateRotation"]

\* rotateRow with any parseInt result.  For an index outside 0..7, right[rowIndex]
\* (left[rowIndex]) is undefined and `temp.push(...undefined)` throws a TypeError:
\* animationState.active is already true, no row has been assigned and
\* animateRotation() is not reached.
rotateRowParsed(x, clockwise) ==
  /\ IF aiThinking \/ animationActive
       THEN /\ UNCHANGED <<faces, animationActive, call>>
            /\ ev' = Event("rotateRow", nullPos, x, clockwise, "rejected")
       ELSE /\ animationActive' = TRUE
            /\ IF isSliceIndex(x)
                 THEN /\ faces' = rotateRowFaces(faces, x.value, clockwise)
                      /\ call' = FrameRequest
                      /\ ev' = Event("rotateRow", nullPos, x, clockwise, "rotated")
                 ELSE /\ UNCHANGED <<faces, call>>
                      /\ ev' = Event("rotateRow", nullPos, x, clockwise, "threw")
  /\ UNCHANGED <<currentTurn, selectedSquare, possibleMoves, inCheck, gameOver, aiThinking>>

\* rotateColumn with any parseInt result.  For an index outside 0..7 the loops read
\* undefined from, and write undefined to, the properties colIndex and 7 - colIndex
\* of the row arrays, both outside 0..7: the 64 squares of every face keep their
\* contents, nothing throws and animateRotation() starts the animation.
rotateColumnParsed(x, clockwise) ==
  /\ IF aiThinking \/ animationActive
       THEN /\ UNCHANGED <<faces, animationActive, call>>
            /\ ev' = Event("rotateColumn", nullPos, x, clockwise, "rejected")
       ELSE /\ animationActive' = TRUE
            /\ call' = FrameRequest
            /\ IF isSliceIndex(x)
                 THEN /\ faces' = rotateColumnFaces(faces, x.value, clockwise)
                      /\ ev' = Event("rotateColumn", nullPos, x, clockwise, "rotated")
                 ELSE /\ UNCHANGED faces
                      /\ ev' = Event("rotateColumn", nullPos, x, clockwise, "outside")
  /\ UNCHANGED <<currentTurn, selectedSquare, possibleMoves, inCheck, gameOver, aiThinking>>

\* number of events one run of SpecIdx handles
MaxStepsIdx == 4

InitIdx ==
  /\ InitialGame
  /\ NoEvents
  /\ call = NoCall
  /\ ret = <<>>
  /\ state = stateAtLoad

TickIdx ==
  /\ steps < MaxStepsIdx
  /\ steps' = steps + 1
  /\ UNCHANGED <<timers, twists, ret>>

RotateRowIdx ==
  /\ TickIdx
  /\ \E x \in ParsedIndices, cw \in BOOLEAN : rotateRowParsed(x, cw)
  /\ UNCHANGED state

RotateColumnIdx ==
  /\ TickIdx
  /\ \E x \in ParsedIndices, cw \in BOOLEAN : rotateColumnParsed(x, cw)
  /\ UNCHANGED state

\* the requested frame runs (the one with progress = 1)
FrameIdx ==
  /\ TickIdx
  /\ call = FrameRequest
  /\ animateRotation
  /\ call' = NoCall
  /\ UNCHANGED state

ClickIdx ==
  /\ TickIdx
  /\ \E sq \in ClickSquares : handleSquareClick(sq.face, sq.row, sq.col)
  /\ UNCHANGED <<animationActive, call>>
  /\ UNCHANGED state

NextIdx ==
  \/ RotateRowIdx
  \/ RotateColumnIdx
  \/ FrameIdx
  \/ ClickIdx

SpecIdx == InitIdx /\ [][NextIdx]_vars

\* C12: invalid slice index.  rotateRow or rotateColumn called with a parseInt
\* result that is not an integer in 0..7 does not throw and leaves the six
\* faces, currentTurn, the selection and the rotation-animation flag unchanged.
C12_InvalidIndexRejected ==
  [][ ( /\ ev'.op \in {"rotateRow", "rotateColumn"}
        /\ ~isSliceIndex(ev'.index) )
      => ( /\ ev'.path # "threw"
           /\ faces' = faces
           /\ currentTurn' = currentTurn
           /\ selectedSquare' = selectedSquare
           /\ possibleMoves' = possibleMoves
           /\ animationActive' = animationActive ) ]_vars

(***************************************************************************)
(* rotateRow(0, true) called four times (specification SpecFour): the      *)
(* calls come from click handlers, the frames of animateRotation from      *)
(* requestAnimationFrame, so a frame may or may not run between two calls. *)
(***************************************************************************)
\* the 32 pieces of the standard setup with a different rank on row 0 of each
\* side face: white pawns on front, white back rank on right, black back rank
\* on back, black pawns on left
RowZeroBoard ==
  [f \in FaceSet |-> [r \in Idx |-> [c \in Idx |->
     CASE f = "front" /\ r = 0 -> Piece(PAWN, WHITE)
       [] f = "right" /\ r = 0 -> Piece(pieceOrder[c + 1], WHITE)
       [] f = "back" /\ r = 0  -> Piece(pieceOrder[c + 1], BLACK)
       [] f = "left" /\ r = 0  -> Piece(PAWN, BLACK)
       [] OTHER -> null ]]]

FourBoards == << RowZeroBoard >> \o Boards

SideFaces == {"front", "right", "back", "left"}

\* number of rotateRow(0, true) calls of the scenario
FourCalls == 4

InitFour ==
  /\ \E k \in 1..Len(FourBoards) :
       /\ faces = FourBoards[k]
       /\ call = [fn |-> "rotateRow", board |-> k]
  /\ currentTurn = WHITE
  /\ selectedSquare = nullPos
  /\ possibleMoves = <<>>
  /\ inCheck = FALSE
  /\ gameOver = FALSE
  /\ aiThinking = FALSE
  /\ animationActive = FALSE
  /\ NoEvents
  /\ ret = <<>>
  /\ state = stateAtLoad

\* the next of the four calls; ret records whether it rotated or was refused
CallRotateRowZero ==
  /\ Len(ret) < FourCalls
  /\ rotateRow(0, TRUE)
  /\ ret' = Append(ret, ev'.path)
  /\ steps' = steps + 1
  /\ UNCHANGED <<timers, twists, call>>
  /\ UNCHANGED state

\* the last frame of the running animation
FrameFour ==
  /\ animateRotation
  /\ steps' = steps + 1
  /\ UNCHANGED <<timers, twists, call, ret>>
  /\ UNCHANGED state

NextFour ==
  \/ CallRotateRowZero
  \/ FrameFour

SpecFour == InitFour /\ [][NextFour]_vars

\* row 0 of the four side faces of board fs are pairwise different
distinguishableRowZero(fs) ==
  \A f, g \in SideFaces : f # g => fs[f][0] # fs[g][0]

\* C13: four consecutive rotateRow(0, true) calls.  Starting from a board with
\* distinguishable pieces on row 0 of front, right, back and left, after the
\* four calls and all resulting animation callbacks, row 0 of each of the four
\* faces equals its original contents.
C13_FourRotationsRestore ==
  ( /\ Len(ret) = FourCalls
    /\ ~animationActive
    /\ distinguishableRowZero(FourBoards[call.board]) )
  => \A f \in SideFaces : faces[f][0] = FourBoards[call.board][f][0]

(***************************************************************************)
(* Check status of the collision-aware game (specification Spec)           *)
(***************************************************************************)
\* the king of the given color stands on a destination of a piece of the other color
kingAttacked(fs, color) ==
  \E k \in Squares :
    /\ At(fs, k) = Piece(KING, color)
    /\ \E p \in Squares :
         /\ At(fs, p) # null
         /\ At(fs, p).color # color
         /\ k \in Range(getValidMoves(fs, p.face, p.row, p.col))

\* C14: inCheck after a move.  After handleSquareClick has applied a move
\* through makeMove, inCheck is true exactly when the king of the new active
\* color stands on a legal destination of some piece of the other color.
C14_InCheckAfterMove ==
  [][ (clicked(ev') /\ ev'.path = "move")
      => (inCheck' <=> kingAttacked(faces', currentTurn')) ]_vars

(***************************************************************************)
(* The opponent's reply in the AI version (specification SpecReply): games *)
(* in progress, the setTimeout callback fires eventually.                  *)
(***************************************************************************)
\* a late position of the AI version: black is left with one pawn that has
\* reached row 7 of front, white with its king and the pawn of front (6,4)
LonePawnBoard ==
  [f \in FaceSet |-> [r \in Idx |-> [c \in Idx |->
     CASE f = "front" /\ r = 7 /\ c = 4 -> Piece(KING, WHITE)
       [] f = "front" /\ r = 6 /\ c = 4 -> Piece(PAWN, WHITE)
       [] f = "front" /\ r = 7 /\ c = 0 -> Piece(PAWN, BLACK)
       [] OTHER -> null ]]]

ReplyBoards == << createCubeFacesAI, LonePawnBoard >>

\* number of clicks and button presses one run of SpecReply handles
MaxStepsReply == 2

\* number of twist button presses among them
MaxTwists == 1

\* white to move in one of the positions, nothing selected, nothing pending
InitReply ==
  /\ \E k \in 1..Len(ReplyBoards) :
       /\ faces = ReplyBoards[k]
       /\ call = [fn |-> "play", board |-> k]
  /\ currentTurn = WHITE
  /\ selectedSquare = nullPos
  /\ possibleMoves = <<>>
  /\ inCheck = FALSE
  /\ gameOver = FALSE
  /\ aiThinking = FALSE
  /\ animationActive = FALSE
  /\ NoEvents
  /\ ret = <<>>
  /\ state = stateAtLoad

\* one more input of the player
TickReply ==
  /\ steps < MaxStepsReply
  /\ steps' = steps + 1
  /\ UNCHANGED <<animationActive, call, ret>>

ClickReply ==
  /\ TickReply
  /\ \E sq \in ClickSquaresAI : handleSquareClickAI(sq.face, sq.row, sq.col)
  /\ UNCHANGED twists
  /\ UNCHANGED state

\* the player presses a twist button at most MaxTwists times; ret lists the presses
TwistReply ==
  /\ Len(ret) < MaxTwists
  /\ steps < MaxStepsReply
  /\ steps' = steps + 1
  /\ \E cw \in BOOLEAN : handleTwist(cw) /\ ret' = Append(ret, cw)
  /\ UNCHANGED <<animationActive, call>>
  /\ UNCHANGED state

NewGameReply ==
  /\ TickReply
  /\ newGameAI
  /\ UNCHANGED state

\* callbacks of the browser: the last frame of a twist, the opponent's timer
TwistFrameReply ==
  /\ twistCompleted
  /\ UNCHANGED <<animationActive, steps, call, ret>>
  /\ UNCHANGED state

TimerReply ==
  /\ aiTimer
  /\ UNCHANGED <<animationActive, steps, call, ret>>
  /\ UNCHANGED state

NextReply ==
  \/ ClickReply
  \/ TwistReply
  \/ NewGameReply
  \/ TwistFrameReply
  \/ TimerReply

\* A step of NextReply lowers timers exactly when it is a TimerReply step, and
\* TimerReply is enabled exactly when timers > 0.
timerFires == timers > 0 /\ timers' = timers - 1

\* a scheduled setTimeout callback is run after its delay
SpecReply == InitReply /\ [][NextReply]_vars /\ WF_timers(timerFires)

\* the squares on which two boards differ
changedSquares(fs, gs) == {s \in Squares : At(fs, s) # At(gs, s)}

\* board gs is board fs after exactly one move of a black piece
oneBlackMove(fs, gs) ==
  \E from, to \in changedSquares(fs, gs) :
    /\ from # to
    /\ changedSquares(fs, gs) = {from, to}
    /\ At(fs, from) # null /\ At(fs, from).color = BLACK
    /\ At(gs, from) = null
    /\ At(gs, to) = At(fs, from)

\* white has just moved and handed the turn to black
replyPending == ev.op = "handleSquareClick" /\ ev.path = "move" /\ currentTurn = BLACK

\* white can move again
whiteToMove == currentTurn = WHITE /\ ~aiThinking

C16_SameFaceBaseline ==
  ret.done
  => LET mover == At(faces, call.sq)
     IN /\ mover.type \in {BISHOP, KNIGHT, KING}
             => \A m \in Range(ret.moves) : m.face = call.sq.face
        /\ mover.type = QUEEN
             => \A i \in 5..8 : \A m \in Range(ret.paths[i]) : m.face = call.sq.face

(***************************************************************************)
(* Move generation of the rook/pawn version (lines 1593-1678,              *)
(* specification SpecMovesRP)                                              *)
(***************************************************************************)
\* case PAWN: the same statements as in the collision-aware version
pawnMovesRP(fs, face, row, col) == pawnMoves(fs, face, row, col)

\* the four `if (row === 0) ... if (col === 7)` blocks of case ROOK
edgeMoveRP(fs, face, row, col, atEdge, direction) ==
  LET piece == fs[face][row][col]
      adjPos == getAdjacentFacePosition(face, row, col, direction)
  IN IF atEdge /\ adjPos # nullPos
        /\ (At(fs, adjPos) = null \/ At(fs, adjPos).color # piece.color)
       THEN << adjPos >> ELSE <<>>

\* case ROOK: every square of the row and the column not holding the mover's
\* color, then one square across each edge the rook stands on
rookMovesRP(fs, face, row, col) ==
  lineMovesAI(fs, face, row, col)
  \o edgeMoveRP(fs, face, row, col, row = 0, "up")
  \o edgeMoveRP(fs, face, row, col, row = 7, "down")
  \o edgeMoveRP(fs, face, row, col, col = 0, "left")
  \o edgeMoveRP(fs, face, row, col, col = 7, "right")

\* KNIGHT, BISHOP, QUEEN and KING fall through to `break`
getValidMovesRP(fs, face, row, col) ==
  LET piece == fs[face][row][col]
  IN IF piece = null THEN <<>>
     ELSE CASE piece.type = PAWN -> pawnMovesRP(fs, face, row, col)
            [] piece.type = ROOK -> rookMovesRP(fs, face, row, col)
            [] OTHER -> <<>>

CallGetValidMovesRP ==
  /\ ~ret.done
  /\ ret' = [done |-> TRUE,
             moves |-> getValidMovesRP(faces, call.sq.face, call.sq.row, call.sq.col)]
  /\ UNCHANGED <<gameVars, animationActive, timers, twists, ev, steps, call>>
  /\ UNCHANGED state

NextMovesRP == CallGetValidMovesRP

SpecMovesRP == InitMoves /\ [][NextMovesRP]_vars

\* standard chess on one face: the squares a piece standing on sq reaches along
\* direction d, up to and including the first occupied square if it can be captured
rayOnFace(fs, sq, d) ==
  {Pos(sq.face, sq.row + n * d[1], sq.col + n * d[2]) : n \in
     {n \in 1..7 :
        /\ onBoard(sq.row + n * d[1], sq.col + n * d[2])
        /\ \A k \in 1..(n - 1) : fs[sq.face][sq.row + k * d[1]][sq.col + k * d[2]] = null
        /\ LET target == fs[sq.face][sq.row + n * d[1]][sq.col + n * d[2]]
           IN target = null \/ target.color # At(fs, sq).color}}

\* standard chess on one face: the squares at the given offsets that are on
\* the board and do not hold the mover's color
offsetsOnFace(fs, sq, offsets) ==
  {Pos(sq.face, sq.row + offsets[i][1], sq.col + offsets[i][2]) : i \in
     {i \in 1..Len(offsets) :
        /\ onBoard(sq.row + offsets[i][1], sq.col + offsets[i][2])
        /\ LET target == fs[sq.face][sq.row + offsets[i][1]][sq.col + offsets[i][2]]
           IN target = null \/ target.color # At(fs, sq).color}}

\* standard chess on one face for the piece on sq (pawns: single step and captures)
standardOnFace(fs, sq) ==
  LET piece == At(fs, sq)
      dirs == walkDirections(piece.type)
  IN CASE isSlider(piece) -> UNION {rayOnFace(fs, sq, dirs[i]) : i \in 1..Len(dirs)}
       [] piece.type = KNIGHT -> offsetsOnFace(fs, sq, knightMoves)
       [] piece.type = KING -> offsetsOnFace(fs, sq, kingDirections)
       [] OTHER -> {m \in Range(pawnMovesAI(fs, sq.face, sq.row, sq.col)) : TRUE}

\* C17: traditional movement within a face.  For each of the six piece types
\* the destinations getValidMoves returns on the piece's own face are its
\* standard chess destinations there: a knight, bishop, queen or king has its
\* free standard target squares among them, and a rook reaches no square
\* behind a blocking piece.
C17_TraditionalMovement ==
  ret.done
  => {m \in Range(ret.moves) : m.face = call.sq.face} = standardOnFace(faces, call.sq)

(***************************************************************************)
(* getValidMoves and the side to move (specification SpecMoves)            *)
(***************************************************************************)
\* C18: defensive move generation.  Asked for the destinations of a square that
\* holds a piece of the color that is not to move, the move generator returns
\* an empty list.
C18_DefensiveGeneration ==
  (ret.done /\ At(faces, call.sq).color # currentTurn) => ret.moves = <<>>

(***************************************************************************)
(* Frame effect of one slice rotation (specification SpecRot)              *)
(***************************************************************************)
\* an accepted rotation request (not refused while an animation runs)
rotated(e, op) == e.op = op /\ e.path = "rotated"

\* C19: rotateRow(i, clockwise = true) carries row i of front to right, right
\* to back, back to left and left to front, each with its row index and column
\* order (counter-clockwise: the reverse cycle); every other row of those four
\* faces, the whole top and bottom faces and currentTurn are unchanged.
C19_RowRotationEffect ==
  [][ rotated(ev', "rotateRow")
      => LET i == ev'.index
         IN /\ IF ev'.clockwise
                 THEN /\ faces'["right"][i] = faces["front"][i]
                      /\ faces'["back"][i] = faces["right"][i]
                      /\ faces'["left"][i] = faces["back"][i]
                      /\ faces'["front"][i] = faces["left"][i]
                 ELSE /\ faces'["left"][i] = faces["front"][i]
                      /\ faces'["back"][i] = faces["left"][i]
                      /\ faces'["right"][i] = faces["back"][i]
                      /\ faces'["front"][i] = faces["right"][i]
            /\ \A f \in SideFaces : \A r \in Idx \ {i} : faces'[f][r] = faces[f][r]
            /\ faces'["top"] = faces["top"]
            /\ faces'["bottom"] = faces["bottom"]
            /\ currentTurn' = currentTurn ]_vars

\* row 7 of the standard setup has been rotated clockwise: the white back rank
\* went from front to right, front received the empty row of left
C19_Witness ==
  /\ rotated(ev, "rotateRow") /\ ev.index = 7 /\ ev.clockwise
  /\ call.board = 1
  /\ steps = 1
  /\ faces["right"][7] = StandardSetup["front"][7]
  /\ faces["front"][7] = emptyFace[7]
  /\ faces["front"][6] = StandardSetup["front"][6]

\* C20: rotateColumn(c, dir) cycles column c of front, top and bottom together
\* with the reflected column 7 - c of back, the back face being read and
\* written with the row order reversed: (r, c) on top or bottom corresponds to
\* (7 - r, 7 - c) on back, so two rotations in the same direction move the
\* piece of front (r, c) to back (7 - r, 7 - c); the left and right faces and
\* all other columns are unchanged.
C20_ColumnRotationEffect ==
  /\ [][ rotated(ev', "rotateColumn")
         => LET c == ev'.index
            IN /\ \A r \in Idx :
                    IF ev'.clockwise
                      THEN /\ faces'["bottom"][r][c] = faces["front"][r][c]
                           /\ faces'["front"][r][c] = faces["top"][r][c]
                           /\ faces'["top"][r][c] = faces["back"][7 - r][7 - c]
                           /\ faces'["back"][7 - r][7 - c] = faces["bottom"][r][c]
                      ELSE /\ faces'["top"][r][c] = faces["front"][r][c]
                           /\ faces'["front"][r][c] = faces["bottom"][r][c]
                           /\ faces'["bottom"][r][c] = faces["back"][7 - r][7 - c]
                           /\ faces'["back"][7 - r][7 - c] = faces["top"][r][c]
               /\ \A f \in {"front", "top", "bottom"} : \A r \in Idx : \A k \in Idx \ {c} :
                    faces'[f][r][k] = faces[f][r][k]
               /\ \A r \in Idx : \A k \in Idx \ {7 - c} :
                    faces'["back"][r][k] = faces["back"][r][k]
               /\ faces'["left"] = faces["left"]
               /\ faces'["right"] = faces["right"] ]_vars
  /\ [](\A c \in Idx : \A cw \in BOOLEAN :
          LET twice == rotateColumnFaces(rotateColumnFaces(faces, c, cw), c, cw)
          IN \A r \in Idx : twice["back"][7 - r][7 - c] = faces["front"][r][c])

\* column 4 of the standard setup has been rotated clockwise: the white king
\* went from front to bottom, the black queen from back (0,3) to top (7,4)
C20_Witness ==
  /\ rotated(ev, "rotateColumn") /\ ev.index = 4 /\ ev.clockwise
  /\ call.board = 1
  /\ steps = 1
  /\ faces["bottom"][7][4] = Piece(KING, WHITE)
  /\ faces["top"][7][4] = Piece(QUEEN, BLACK)
  /\ faces["front"][7][4] = null
  /\ faces["back"][0][3] = null

(***************************************************************************)
(* Pawn destinations (specification SpecMoves)                             *)
(***************************************************************************)
\* the square straight ahead of the pawn on sq: the next row of its face, or
\* the square the adjacency table gives when that row is off the face
squareAhead(fs, sq) ==
  LET newRow == sq.row + (IF At(fs, sq).color = WHITE THEN -1 ELSE 1)
  IN IF newRow >= 0 /\ newRow < 8
       THEN Pos(sq.face, newRow, sq.col)
       ELSE getAdjacentFacePosition(sq.face, sq.row, sq.col, IF newRow < 0 THEN "up" ELSE "down")

\* the same-face forward-diagonal squares of the pawn on sq
forwardDiagonals(fs, sq) ==
  LET newRow == sq.row + (IF At(fs, sq).color = WHITE THEN -1 ELSE 1)
  IN {Pos(sq.face, newRow, c) : c \in {c \in {sq.col - 1, sq.col + 1} : onBoard(newRow, c)}}

pawnCrossesEdge ==
  /\ ret.done
  /\ At(faces, call.sq).type = PAWN
  /\ squareAhead(faces, call.sq).face # call.sq.face
  /\ ret.moves = << squareAhead(faces, call.sq) >>


(***************************************************************************)
(* isInCheck of the AI version on the boards makeMove hands to it          *)
(* (specification SpecCheck)                                               *)
(***************************************************************************)
\* positions of the AI version: the initial one, the one after 1.f3 e5 2.g4,
\* the same with the black queen on front (4,7) giving check, and the late
\* position where black has a single pawn
OpenDiagonalBoard ==
  [createCubeFacesAI EXCEPT !["front"][6][5] = null, !["front"][5][5] = Piece(PAWN, WHITE),
                            !["front"][1][4] = null, !["front"][3][4] = Piece(PAWN, BLACK),
                            !["front"][6][6] = null, !["front"][4][6] = Piece(PAWN, WHITE)]

QueenCheckBoard ==
  [OpenDiagonalBoard EXCEPT !["front"][0][3] = null, !["front"][4][7] = Piece(QUEEN, BLACK)]

CheckBoards == << createCubeFacesAI, OpenDiagonalBoard, QueenCheckBoard, LonePawnBoard >>

\* makeMove calls isInCheck(gameState.faces, opponentColor) on the board it has
\* just changed: a sampled board after one move of one of its pieces
InitCheck ==
  /\ \E k \in 1..Len(CheckBoards) : \E from \in Squares :
       /\ At(CheckBoards[k], from) # null
       /\ \E to \in Range(getValidMovesAI(CheckBoards[k], from.face, from.row, from.col)) :
            /\ faces = makeMoveFaces(CheckBoards[k], from, to)
            /\ currentTurn = otherColor(At(CheckBoards[k], from).color)
            /\ call = [fn |-> "isInCheck", board |-> k, from |-> from, to |-> to]
  /\ selectedSquare = nullPos
  /\ possibleMoves = <<>>
  /\ inCheck = FALSE
  /\ gameOver = FALSE
  /\ aiThinking = FALSE
  /\ animationActive = FALSE
  /\ NoEvents
  /\ ret = [done |-> FALSE]
  /\ state = stateAtLoad

CallIsInCheck ==
  /\ ~ret.done
  /\ ret' = [done |-> TRUE, value |-> isInCheck(faces, currentTurn)]
  /\ inCheck' = isInCheck(faces, currentTurn)
  /\ UNCHANGED <<faces, currentTurn, selectedSquare, possibleMoves, gameOver, aiThinking,
                 animationActive, timers, twists, ev, steps, call>>
  /\ UNCHANGED state

NextCheck == CallIsInCheck

SpecCheck == InitCheck /\ [][NextCheck]_vars

\* the kings of a color on a board
kingsOf(fs, color) == {k \in Squares : At(fs, k) = Piece(KING, color)}

\* the squares the pieces of the other color can move to
attackedBy(fs, color) ==
  UNION {Range(getValidMovesAI(fs, p.face, p.row, p.col)) :
           p \in {q \in Squares : At(fs, q) # null /\ At(fs, q).color = color}}

\* C22: check detection.  isInCheck(faces, color) of the AI version is true
\* exactly when a king of that color is on the board and its square is among
\* the getValidMoves destinations of some piece of the other color; without
\* such a king it is false.
C22_CheckDetection ==
  ret.done
  => /\ ret.value <=> (/\ kingsOf(faces, currentTurn) # {}
                       /\ kingsOf(faces, currentTurn) \cap attackedBy(faces, otherColor(currentTurn)) # {})
     /\ kingsOf(faces, currentTurn) = {} => ~ret.value

\* a king on a destination of a piece of the other color: isInCheck is true
C22_Witness ==
  /\ ret.done
  /\ ret.value
  /\ kingsOf(faces, currentTurn) # {}

\* the king of the color has just been captured: isInCheck is false
kingCaptured ==
  /\ ret.done
  /\ ~ret.value
  /\ kingsOf(faces, currentTurn) = {}
  /\ At(CheckBoards[call.board], call.to) = Piece(KING, currentTurn)

\* no board handed to isInCheck holds two kings of one color
oneKingEach == \A color \in {WHITE, BLACK} : Cardinality(kingsOf(faces, color)) <= 1


\* board gs is board fs after the piece of from has been put on to
movedOn(fs, gs, from, to) ==
  \A s \in Squares :
    At(gs, s) = (IF s = to THEN At(fs, from) ELSE IF s = from THEN null ELSE At(fs, s))

\* some black piece has a destination on the board
blackCanMove(fs) ==
  \E p \in Squares :
    /\ At(fs, p) # null
    /\ At(fs, p).color = BLACK
    /\ getValidMovesAI(fs, p.face, p.row, p.col) # <<>>

\* C23: opponent move legality.  When the opponent's timer fires and a black
\* piece has a destination, the board changes by the move of one black piece to
\* one of its getValidMoves destinations on the board of that moment; when no
\* black piece has a destination the board is left unchanged.
C23_OpponentMoveLegal ==
  [][ timers' < timers
      => IF blackCanMove(faces)
           THEN \E from \in Squares :
                  /\ At(faces, from) # null
                  /\ At(faces, from).color = BLACK
                  /\ ev'.sq \in Range(getValidMovesAI(faces, from.face, from.row, from.col))
                  /\ movedOn(faces, faces', from, ev'.sq)
           ELSE faces' = faces /\ ev'.path = "none" ]_vars

\* the timer has fired after white's first move and black has answered
C23_Witness ==
  /\ ev.op = "aiTimer"
  /\ ev.path = "move"
  /\ call.board = 1
  /\ faces["front"][5][4] = Piece(PAWN, WHITE)
  /\ At(faces, ev.sq) # null
  /\ At(faces, ev.sq).color = BLACK

\* the timer has fired while black's only pawn had no destination
timerFoundNoMove ==
  /\ ev.op = "aiTimer"
  /\ ev.path = "none"
  /\ faces = LonePawnBoard


\* C24: move validity under interleaved rotations.  Whenever handleSquareClick
\* applies a move, the origin square holds a piece of the active color and the
\* destination is a legal destination of that piece on the board of that
\* moment, also when a slice was rotated after the piece was selected.
C24_MoveValidUnderRotation ==
  [][ (clicked(ev') /\ ev'.path = "move")
      => ( /\ At(faces, selectedSquare) # null
           /\ At(faces, selectedSquare).color = currentTurn
           /\ ev'.sq \in Range(getValidMoves(faces, selectedSquare.face,
                                             selectedSquare.row, selectedSquare.col)) ) ]_vars


\* C25: New Game versus a pending opponent move.  When newGame has just reset
\* the game, an opponent timer that was scheduled before the reset and fires
\* next leaves the board at the initial setup and currentTurn white.
C25_ResetNotOverrun ==
  [][ (ev.op = "newGame" /\ ev'.op = "aiTimer")
      => (faces' = createCubeFacesAI /\ currentTurn' = WHITE) ]_vars


\* C26: opponent moves alternate with human actions.  Under every interleaving
\* of clicks, twists, twist frames, New Game and timer firings at most one
\* opponent move is pending, and a black move is never applied directly after
\* another one.
C26_OnePendingReply ==
  /\ [](timers <= 1)
  /\ [][ ~(ev.op = "aiTimer" /\ ev.path = "move" /\ ev'.op = "aiTimer" /\ ev'.path = "move") ]_vars


\* C27: rotation inverse.  In the rook/pawn version, rotating a row or a column
\* clockwise and then counter-clockwise with the same index, or the other way
\* round, gives back exactly the board the pair started from.
C27_RotationInverse ==
  /\ (Len(ret) = 2 /\ ret[1] # ret[2]) => faces = Boards[call.board]
  /\ (Len(ret) = 4 /\ ret[1] # ret[2] /\ ret[3] # ret[4]) => faces = Boards[call.board]
  /\ (Len(ret) = 4 /\ ret[1] = ret[2] /\ ret[3] # ret[4])
       => faces = (IF call.kind = "row"
                     THEN rotateRowFacesRP(rotateRowFacesRP(Boards[call.board], call.index, ret[1]),
                                           call.index, ret[2])
                     ELSE rotateColumnFacesRP(rotateColumnFacesRP(Boards[call.board], call.index, ret[1]),
                                              call.index, ret[2]))

\* row 7 of the standard setup, which holds the white pieces, has been rotated
\* clockwise and back
C27_Witness ==
  /\ ret = <<TRUE, FALSE>>
  /\ call.kind = "row" /\ call.index = 7 /\ call.board = 1
  /\ rotateRowFacesRP(Boards[1], 7, TRUE) # Boards[1]
  /\ faces = Boards[1]

\* column 4 of the standard setup has been rotated counter-clockwise and back
columnRotatedAndBack ==
  /\ ret = <<FALSE, TRUE>>
  /\ call.kind = "column" /\ call.index = 4 /\ call.board = 1
  /\ rotateColumnFacesRP(Boards[1], 4, FALSE) # Boards[1]
  /\ faces = Boards[1]


\* the number of pieces of a color on the six faces
colorCount(fs, color) ==
  Cardinality({s \in Squares : At(fs, s) # null /\ At(fs, s).color = color})

\* C28: piece conservation.  Under square clicks and slice rotations since
\* newGame the number of pieces of each color never increases, a rotation leaves
\* both counts unchanged, and one applied move lowers the total by at most one.
C28_PieceConservation ==
  [][ (ev'.op # "newGame" /\ faces' # faces)
      => LET white == colorCount(faces, WHITE)
             black == colorCount(faces, BLACK)
             whiteAfter == colorCount(faces', WHITE)
             blackAfter == colorCount(faces', BLACK)
         IN /\ whiteAfter <= white
            /\ blackAfter <= black
            /\ ev'.op \in {"rotateRow", "rotateColumn"} => (whiteAfter = white /\ blackAfter = black)
            /\ (clicked(ev') /\ ev'.path = "move")
                 => whiteAfter + blackAfter >= white + black - 1 ]_vars

\* a move has been applied that took a piece off the board
C28_Witness ==
  /\ clicked(ev)
  /\ ev.path = "move"
  /\ colorCount(faces, WHITE) + colorCount(faces, BLACK) = 31


\* C29: destinations are valid squares.  Every destination getValidMoves
\* returns names one of the six faces with row and col in 0..7, differs from
\* the origin square, and is not occupied by a piece of the mover's color.
C29_DestinationsValid ==
  ret.done
  => \A n \in 1..Len(ret.moves) :
       LET m == ret.moves[n]
       IN /\ m.face \in FaceSet
          /\ m.row \in Idx
          /\ m.col \in Idx
          /\ m # call.sq
          /\ At(faces, m) = null \/ At(faces, m).color # At(faces, call.sq).color


\* a knight of the standard setup whose jumps leave the face: the destinations
\* on the neighbouring face are listed next to those on its own face
C29_Witness ==
  /\ ret.done
  /\ At(faces, call.sq).type = KNIGHT
  /\ \E n \in 1..Len(ret.moves) : ret.moves[n].face # call.sq.face
  /\ \E n \in 1..Len(ret.moves) : ret.moves[n].face = call.sq.face
  /\ \E d \in Range(knightMoves) :
       LET r == call.sq.row + d[1]
           c == call.sq.col + d[2]
       IN /\ r \in Idx /\ c \in Idx
          /\ faces[call.sq.face][r][c] # null
          /\ faces[call.sq.face][r][c].color = At(faces, call.sq).color

\* a sliding piece captures on a neighbouring face
sliderCapturesAcrossEdge ==
  /\ ret.done
  /\ isSlider(At(faces, call.sq))
  /\ \E n \in 1..Len(ret.moves) :
       /\ ret.moves[n].face # call.sq.face
       /\ At(faces, ret.moves[n]) # null


(***************************************************************************)
(* Tetris: games close to their end (specification SpecTetris).  Init      *)
(* draws a running game in which the player has let a number of pieces    *)
(* fall with the space key; then keys, frames and buttons arrive.          *)
(***************************************************************************)
\* outcomes of shuffle([...TYPE_ORDER]) the runs draw from
Shuffles ==
  { << "I", "J", "L", "O", "S", "T", "Z" >>,
    << "Z", "S", "T", "O", "L", "J", "I" >>,
    << "O", "I", "T", "S", "Z", "L", "J" >> }

\* e.key.toLowerCase() of the keys pressed; "enter" takes the default branch
Keys == { "arrowleft", "arrowright", "arrowdown", "arrowup", "z", " ", "p", "enter" }

\* number of keys, frames and button clicks one run handles
MaxStepsTetris == 3

\* most pieces dropped before the run starts
MaxDrops == 10

\* the game after the Start button and n presses of the space key
RECURSIVE afterDrops(_, _)
afterDrops(n, perm) ==
  IF n = 0 THEN startGame(stateAtLoad, perm)
  ELSE hardDrop(afterDrops(n - 1, perm), perm)

InitTetris ==
  /\ InitialGame
  /\ NoEvents
  /\ call = NoCall
  /\ ret = <<>>
  /\ \E perm \in Shuffles : \E n \in 0..MaxDrops :
       /\ afterDrops(n, perm).playing
       /\ state = afterDrops(n, perm)

TickTetris ==
  /\ steps < MaxStepsTetris
  /\ steps' = steps + 1
  /\ UNCHANGED <<gameVars, animationActive, timers, twists, call, ret>>

\* window keydown listener
KeyDown ==
  /\ TickTetris
  /\ \E k \in Keys : \E perm \in Shuffles :
       /\ state' = keydown(state, k, perm)
       /\ ev' = Event("keydown", nullPos, -1, FALSE, k)

\* loop(timestamp): step(delta), render, requestAnimationFrame(loop)
Frame ==
  /\ TickTetris
  /\ \E due \in BOOLEAN : \E perm \in Shuffles :
       /\ state' = step(state, due, perm)
       /\ ev' = Event("loop", nullPos, -1, due, "frame")

StartClick ==
  /\ TickTetris
  /\ \E perm \in Shuffles :
       state' = startGame(IF state.gameOver THEN resetGame(state) ELSE state, perm)
  /\ ev' = Event("startBtn", nullPos, -1, FALSE, "click")

PauseClick ==
  /\ TickTetris
  /\ state' = togglePause(state)
  /\ ev' = Event("pauseBtn", nullPos, -1, FALSE, "click")

RestartClick ==
  /\ TickTetris
  /\ \E perm \in Shuffles : state' = startGame(resetGame(state), perm)
  /\ ev' = Event("restartBtn", nullPos, -1, FALSE, "click")

NextTetris ==
  \/ KeyDown
  \/ Frame
  \/ StartClick
  \/ PauseClick
  \/ RestartClick

SpecTetris == InitTetris /\ [][NextTetris]_vars

\* C30: game-over freeze.  Once setGameOver has set gameOver and cleared
\* playing, no key press and no frame changes the grid, the score, the lines
\* or the level; only the Start and the Restart button, through resetGame, do.
C30_GameOverFreeze ==
  [][ (state.gameOver /\ ~state.playing /\ ev'.op \in {"keydown", "loop", "pauseBtn"})
      => ( /\ state'.grid = state.grid
           /\ state'.score = state.score
           /\ state'.lines = state.lines
           /\ state'.level = state.level ) ]_vars

====
